---- MODULE Spec2Model ----
(***************************************************************************)
(* TestRunSummary: the retry orchestrator of services.py                   *)
(* (generate_flux_query_only, generate_flux_with_validation,               *)
(* generate_query_with_summary, execute_flux_query) and the audit log of   *)
(* query_logger.py (log_query, get_recent_logs).                           *)
(*                                                                         *)
(* Texts are sequences of tokens: a token is a word, a whitespace run      *)
(* (WS), a newline (NL) or a Markdown fence.  Python's None is the         *)
(* one-token text NoneText or the one-row data NoneData, which no          *)
(* collaborator produces.                                                  *)
(***************************************************************************)
EXTENDS Integers, Sequences, FiniteSets, TLC

VARIABLES
    pc,               \* position of the request: idle, generating, validating,
                      \* executing, summarizing, done
    fn,               \* entry point called: query_only, with_validation, with_summary
    user_query,       \* the request text
    execution_number, \* execution number after defaulting
    max_retries,      \* attempt limit after defaulting
    attempt,          \* loop variable of `for attempt in range(1, max_retries + 1)`
    messages,         \* conversation handed to the generator
    flux_query,       \* cleaned text of the latest generator response
    query_result,     \* generate_query_with_summary: result of generate_flux_query_only
    exec_result,      \* generate_query_with_summary: result of the Step 2 execution
    result,           \* the dictionary returned to the caller
    fileLogs,         \* content of query_logs.json
    clock,            \* datetime.now(), a counter
    genLog,           \* history: generator calls of the retry loop, with the attempt
    execLog,          \* history: store executions
    summaryCalls,     \* history: generator calls made for a summary
    logCalls,         \* history: entries handed to log_query by this request
    wpc,              \* logger writers: position of each writer inside log_query
    wlogs,            \* logger writers: the local list `logs`
    wentry,           \* logger writers: the local `log_entry`
    logged,           \* history: every entry handed to log_query, in call order
    recent,           \* value returned by the latest get_recent_logs call
    request_text,     \* classifier: the text handed to detect_summary_request
    detected,         \* classifier: the tuple detect_summary_request returned
    result_rows,      \* aggregation: the rows of a result (result["data"])
    display,          \* aggregation: what the deduplication produced
    failure_text,     \* categorizer: the text handed to categorize_failure
    categories,       \* categorizer: the list categorize_failure returned
    summary_call,     \* summaries: the call made on SummaryService and what the store holds
    summary_result,   \* summaries: what the call returned, or the exception it raised
    store_call,       \* record store: the call made on execute_flux_query
    store_result      \* record store: the dictionary the call returned

vars == <<pc, fn, user_query, execution_number, max_retries, attempt, messages,
          flux_query, query_result, exec_result, result, fileLogs, clock, genLog,
          execLog, summaryCalls, logCalls, wpc, wlogs, wentry, logged, recent,
          request_text, detected, result_rows, display, failure_text, categories,
          summary_call, summary_result, store_call, store_result>>

orchVars == <<pc, fn, user_query, execution_number, max_retries, attempt, messages,
              flux_query, query_result, exec_result, result, genLog, execLog,
              summaryCalls, logCalls>>

writerVars == <<wpc, wlogs, wentry, logged, recent>>

classifierVars == <<request_text, detected>>

aggregationVars == <<result_rows, display>>

categorizerVars == <<failure_text, categories>>

summaryVars == <<summary_call, summary_result>>

storeVars == <<store_call, store_result>>

\* The variables of the pure components, which no request or log step changes
pureVars == <<classifierVars, aggregationVars, categorizerVars, summaryVars,
             storeVars>>

\* The variables of the query service and its audit log
serviceVars == <<orchVars, writerVars, fileLogs, clock>>

(***************************************************************************)
(* Bounds                                                                  *)
(***************************************************************************)
MaxAttempts == 3

MaxLogCalls == 1003

MaxLimit == 3

MaxConcurrentCalls == 3

(***************************************************************************)
(* Program constants                                                       *)
(***************************************************************************)
LogLimit == 1000

DEFAULT_MAX_RETRIES == 3

DEFAULT_EXECUTION_NUMBER == "1"

\* get_recent_logs(self, limit: int = 50)
DefaultLimit == 50

(***************************************************************************)
(* Texts                                                                   *)
(***************************************************************************)
WS == "ws"

NL == "nl"

\* the text "```flux"
FenceFlux == "fence-flux"

\* the text "```"
Fence == "fence"

ErrorSentinel == "ERROR:"

ExecToken == "${execution_number}"

NoneText == <<"None">>

NoneData == <<[none |-> TRUE]>>

RECURSIVE LStrip(_)
LStrip(s) == IF s # <<>> /\ Head(s) \in {WS, NL} THEN LStrip(Tail(s)) ELSE s

RECURSIVE RStrip(_)
RStrip(s) ==
    IF s # <<>> /\ s[Len(s)] \in {WS, NL} THEN RStrip(SubSeq(s, 1, Len(s) - 1)) ELSE s

\* str.strip()
Strip(s) == RStrip(LStrip(s))

\* str.replace(tok, "")
Remove(s, tok) == SelectSeq(s, LAMBDA t : t # tok)

\* str.replace(tok, by) where `by` is one token
Replace(s, tok, by) == [i \in 1..Len(s) |-> IF s[i] = tok THEN by ELSE s[i]]

\* content.strip().replace("```flux", "").replace("```", "").strip()
CleanResponse(raw) == Strip(Remove(Remove(Strip(raw), FenceFlux), Fence))

StartsWith(s, tok) == Len(s) > 0 /\ s[1] = tok

\* str.lower() of one token
Lower(tok) == IF tok = "Runtime Error" THEN "runtime error" ELSE tok

\* "runtime error" in text.lower()
HasRuntimeError(s) == \E i \in 1..Len(s) : Lower(s[i]) = "runtime error"

\* text.split("\n"): the lines of a text, in order
RECURSIVE SplitLines(_)
SplitLines(s) ==
    IF \A i \in 1..Len(s) : s[i] # NL
    THEN <<s>>
    ELSE LET k == CHOOSE i \in 1..Len(s) : s[i] = NL /\ \A j \in 1..(i - 1) : s[j] # NL
         IN  <<SubSeq(s, 1, k - 1)>> \o SplitLines(SubSeq(s, k + 1, Len(s)))

(***************************************************************************)
(* Record store: FluxQueryService.execute_flux_query                       *)
(***************************************************************************)
ClientNotInitialized == <<"InfluxDB client not initialized">>

\* excluded_columns without 'result' and 'table'
excluded_columns_RangeOnly == {"_start", "_stop"}

\* Metadata columns to exclude
excluded_columns == {"result", "table", "_start", "_stop"}

\* One record of the store, with the store's metadata columns
StoreRecord(name, status) ==
    ("result" :> "_result") @@ ("table" :> "0") @@ ("_start" :> "1970") @@
    ("_stop" :> "now") @@ ("testname" :> name) @@ ("status" :> status)

\* {k: v for k, v in record.values.items() if k not in excluded_columns}
filtered_values(record) == [k \in (DOMAIN record) \ excluded_columns |-> record[k]]

\* for table in tables: for record in table.records: results.append(...)
RECURSIVE CollectResults(_)
CollectResults(tables) ==
    IF tables = <<>>
    THEN <<>>
    ELSE [i \in 1..Len(Head(tables)) |-> filtered_values(Head(tables)[i])]
         \o CollectResults(Tail(tables))

\* error_msg of the except branch: the first line holding "runtime error",
\* stripped, when there is one
ErrorMessage(msg) ==
    IF HasRuntimeError(msg)
    THEN LET lines == SplitLines(msg)
             k == CHOOSE i \in 1..Len(lines) :
                      /\ HasRuntimeError(lines[i])
                      /\ \A j \in 1..(i - 1) : ~HasRuntimeError(lines[j])
         IN  Strip(lines[k])
    ELSE msg

\* query.replace("${execution_number}", str(execution_number))
processed_query(query, en) == Replace(query, ExecToken, en)

\* What the store does with one call: the client is missing, the query runs
\* and yields tables, or the client raises
StoreOutcomes ==
    {[kind |-> "unavailable", tables |-> <<>>, msg |-> <<>>]}
    \cup {[kind |-> "rows", tables |-> t, msg |-> <<>>] :
            t \in {<<>>,
                   << <<StoreRecord("t2", "PASS")>> >>,
                   << <<StoreRecord("t1", "FAIL")>>, <<StoreRecord("t2", "PASS")>> >>}}
    \cup {[kind |-> "raise", tables |-> <<>>, msg |-> m] :
            m \in {<<"compilation failed">>,
                   <<"HTTP 400", NL, WS, "Runtime Error", "bad column", WS, NL, "trace">>}}

ExecuteFluxQuery(query, en, out) ==
    IF out.kind = "unavailable"
    THEN [success |-> FALSE, data |-> NoneData, error |-> ClientNotInitialized,
          row_count |-> 0]
    ELSE IF out.kind = "rows"
    THEN LET results == CollectResults(out.tables)
         IN  [success |-> TRUE, data |-> results, error |-> NoneText,
              row_count |-> Len(results)]
    ELSE [success |-> FALSE, data |-> NoneData, error |-> ErrorMessage(out.msg),
          row_count |-> 0]

(***************************************************************************)
(* Audit log: QueryLogger                                                  *)
(***************************************************************************)
\* s[start:] of Python, for any integer start
PySliceFrom(s, start) ==
    LET n == Len(s)
        lo == IF start < 0 THEN (IF start + n < 0 THEN 0 ELSE start + n)
              ELSE (IF start > n THEN n ELSE start)
    IN  SubSeq(s, lo + 1, n)

\* log_entry of log_query
LogEntry(ts, uq, fq, en, ok, rc, attempts, err) ==
    [timestamp |-> ts, user_query |-> uq, flux_query |-> fq, execution_number |-> en,
     success |-> ok, row_count |-> rc, attempts |-> attempts, error |-> err]

\* _read_logs: the list stored in the file; an empty file reads as []
ReadLogs(file) == file

\* logs = logs[:1000]
PruneLogs_KeepFirst(logs) == IF Len(logs) > LogLimit THEN SubSeq(logs, 1, LogLimit) ELSE logs

\* if len(logs) > 1000: logs = logs[-1000:]
PruneLogs(logs) == IF Len(logs) > LogLimit THEN PySliceFrom(logs, 0 - LogLimit) ELSE logs

\* logs = self._read_logs(); logs.append(log_entry); prune; self._write_logs(logs)
LogQuery(file, entry) == PruneLogs(Append(ReadLogs(file), entry))

\* logs[-limit:] if len(logs) > limit else logs
GetRecentLogs(file, limit) ==
    LET logs == ReadLogs(file)
    IN  IF Len(logs) > limit THEN PySliceFrom(logs, 0 - limit) ELSE logs

(***************************************************************************)
(* Query generator and inputs                                              *)
(***************************************************************************)
QUERY_ANALYSIS_PROMPT == <<"QUERY_ANALYSIS_PROMPT">>

UserQueries == {<<"show failing tests">>}

ExecutionNumbers == {"7"}

\* Raw generator responses: a bare query, a fenced query using the execution
\* token, a refusal and a fenced refusal
RawResponses ==
    {<<"q1">>,
     <<FenceFlux, NL, "q2", ExecToken, NL, Fence, WS>>,
     <<ErrorSentinel, "unsupported">>,
     <<Fence, ErrorSentinel, "no schema", Fence>>}

\* One generator call: a response text, or an exception (client construction,
\* transport, a response without content)
GenOutcomes ==
    {[kind |-> "text", raw |-> r, msg |-> <<>>] : r \in RawResponses}
    \cup {[kind |-> "raise", raw |-> <<>>, msg |-> <<"connection refused">>]}

Message(role, content) == [role |-> role, content |-> content]

\* error_feedback without {result['error']}
QO_error_feedback_NoError(err, q) ==
    <<"The query failed with this error:">> \o <<"FAILED QUERY:">> \o q
    \o <<"Common fixes", "Generate the corrected query:">>

\* error_feedback of generate_flux_query_only
QO_error_feedback(err, q) ==
    <<"The query failed with this error:">> \o err \o <<"FAILED QUERY:">> \o q
    \o <<"Common fixes", "Generate the corrected query:">>

\* error_feedback of generate_flux_with_validation
FV_error_feedback(err, q) ==
    <<"The query failed with this error:">> \o err \o <<"FAILED QUERY:">> \o q
    \o <<"following these rules", "Generate the corrected query:">>

\* f"Generation error: {str(e)}"
GenerationError(msg) == <<"Generation error:">> \o msg

MaxRetriesReached == <<"Max retries reached">>

\* flux_query == "ERROR:" in place of startswith
IsRefusal_Exact(q) == q = <<ErrorSentinel>>

\* flux_query.startswith("ERROR:")
IsRefusal(q) == StartsWith(q, ErrorSentinel)

\* if attempt <= max_retries
ShouldRetry_Inclusive(a, m) == a <= m

\* if attempt < max_retries
ShouldRetry(a, m) == a < m

\* except: if attempt == max_retries + 1
IsLastAttempt_Beyond(a, m) == a = m + 1

\* except: if attempt == max_retries
IsLastAttempt(a, m) == a = m

(***************************************************************************)
(* Results of generate_flux_query_only                                     *)
(***************************************************************************)
QO_Refused(q, a) == [query |-> q, success |-> FALSE, error |-> q, attempts |-> a]

QO_Succeeded(q, a) == [query |-> q, success |-> TRUE, error |-> NoneText, attempts |-> a]

QO_Exhausted(q, err, a) == [query |-> q, success |-> FALSE, error |-> err, attempts |-> a]

QO_GenerationError(msg, a) ==
    [query |-> <<>>, success |-> FALSE, error |-> GenerationError(msg), attempts |-> a]

QO_MaxRetries(m) ==
    [query |-> <<>>, success |-> FALSE, error |-> MaxRetriesReached, attempts |-> m]

(***************************************************************************)
(* Results of generate_flux_with_validation                                *)
(***************************************************************************)
FV_Refused(q, a) ==
    [query |-> q, success |-> FALSE, data |-> NoneData, error |-> q, attempts |-> a,
     row_count |-> 0]

\* the attempt counted from zero
FV_Succeeded_ZeroBased(q, r, a) ==
    [query |-> q, success |-> TRUE, data |-> r.data, error |-> NoneText,
     attempts |-> a - 1, row_count |-> r.row_count]

FV_Succeeded(q, r, a) ==
    [query |-> q, success |-> TRUE, data |-> r.data, error |-> NoneText,
     attempts |-> a, row_count |-> r.row_count]

FV_Exhausted(q, err, a) ==
    [query |-> q, success |-> FALSE, data |-> NoneData, error |-> err, attempts |-> a,
     row_count |-> 0]

FV_GenerationError(msg, a) ==
    [query |-> <<>>, success |-> FALSE, data |-> NoneData,
     error |-> GenerationError(msg), attempts |-> a, row_count |-> 0]

FV_MaxRetries(m) ==
    [query |-> <<>>, success |-> FALSE, data |-> NoneData, error |-> MaxRetriesReached,
     attempts |-> m, row_count |-> 0]

(***************************************************************************)
(* Results of generate_query_with_summary                                  *)
(***************************************************************************)
NoResultsSummary == <<"**No Results Found**">>

\* f"**Summary Generation Failed**\n\nQuery returned {row_count} rows. Error: {str(e)}"
SummaryFailed(rc, msg) ==
    <<"**Summary Generation Failed**", NL, NL, "Query returned", ToString(rc),
      "rows. Error:">> \o msg

\* the query generation failed
WS_GenerationFailed(qr) ==
    [query |-> qr.query, success |-> FALSE, data |-> NoneData, summary |-> NoneText,
     error |-> qr.error, attempts |-> qr.attempts, row_count |-> 0]

\* the Step 2 execution failed
WS_ExecutionFailed(q, er, a) ==
    [query |-> q, success |-> FALSE, data |-> NoneData, summary |-> NoneText,
     error |-> er.error, attempts |-> a, row_count |-> 0]

WS_Succeeded(q, er, summary, a) ==
    [query |-> q, success |-> TRUE, data |-> er.data, summary |-> summary,
     error |-> NoneText, attempts |-> a, row_count |-> er.row_count]

(***************************************************************************)
(* The query_logger.log_query calls of services.py, one per call site      *)
(***************************************************************************)
FV_RefusedEntry(ts, uq, q, en, a) == LogEntry(ts, uq, q, en, FALSE, 0, a, q)

FV_SucceededEntry(ts, uq, q, en, r, a) ==
    LogEntry(ts, uq, q, en, TRUE, r.row_count, a, NoneText)

FV_ExhaustedEntry(ts, uq, q, en, r, a) == LogEntry(ts, uq, q, en, FALSE, 0, a, r.error)

FV_GenerationErrorEntry(ts, uq, en, msg, a) ==
    LogEntry(ts, uq, <<>>, en, FALSE, 0, a, GenerationError(msg))

FV_MaxRetriesEntry(ts, uq, en, m) ==
    LogEntry(ts, uq, <<>>, en, FALSE, 0, m, MaxRetriesReached)

WS_GenerationFailedEntry(ts, uq, en, qr) ==
    LogEntry(ts, uq, qr.query, en, FALSE, 0, qr.attempts, qr.error)

WS_ExecutionFailedEntry(ts, uq, q, en, er, a) ==
    LogEntry(ts, uq, q, en, FALSE, 0, a, er.error)

\* log_query's default attempts=1, were the call to leave attempts out
WS_SucceededEntry_NoAttempts(ts, uq, q, en, rc, a) ==
    LogEntry(ts, uq, q, en, TRUE, rc, 1, NoneText)

WS_SucceededEntry(ts, uq, q, en, rc, a) == LogEntry(ts, uq, q, en, TRUE, rc, a, NoneText)

(***************************************************************************)
(* Initial state: no request yet, an empty log file, idle writers          *)
(***************************************************************************)
NoResult == [none |-> TRUE]

Writers == {1, 2}

Init ==
    /\ pc = "idle"
    /\ fn = "none"
    /\ user_query = <<>>
    /\ execution_number = ""
    /\ max_retries = 0
    /\ attempt = 0
    /\ messages = <<>>
    /\ flux_query = <<>>
    /\ query_result = NoResult
    /\ exec_result = NoResult
    /\ result = NoResult
    /\ fileLogs = <<>>
    /\ clock = 0
    /\ genLog = <<>>
    /\ execLog = <<>>
    /\ summaryCalls = 0
    /\ logCalls = <<>>
    /\ wpc = [w \in Writers |-> "idle"]
    /\ wlogs = [w \in Writers |-> <<>>]
    /\ wentry = [w \in Writers |-> NoResult]
    /\ logged = <<>>
    /\ recent = NoResult
    /\ request_text = ""
    /\ detected = NoResult
    /\ result_rows = <<>>
    /\ display = NoResult
    /\ failure_text = NoResult
    /\ categories = <<>>
    /\ summary_call = NoResult
    /\ summary_result = NoResult
    /\ store_call = NoResult
    /\ store_result = NoResult

(***************************************************************************)
(* The request: the retry loop and what follows it                         *)
(***************************************************************************)
\* query_logger.log_query for each entry (none or one), then return res
Return(res, entries) ==
    /\ result' = res
    /\ pc' = "done"
    /\ fileLogs' = IF entries = <<>> THEN fileLogs ELSE LogQuery(fileLogs, entries[1])
    /\ clock' = clock + Len(entries)
    /\ logCalls' = logCalls \o entries

\* The retry loop returns qo (generate_flux_query_only) or fv, logged as fvEntry
\* (generate_flux_with_validation); generate_query_with_summary goes on from qo
Finish(f, uq, en, qo, fv, fvEntry) ==
    IF f = "query_only"
    THEN /\ Return(qo, <<>>)
         /\ UNCHANGED query_result
    ELSE IF f = "with_validation"
    THEN /\ Return(fv, <<fvEntry>>)
         /\ UNCHANGED query_result
    ELSE /\ query_result' = qo
         /\ IF qo.success
            THEN /\ pc' = "executing"
                 /\ UNCHANGED <<result, fileLogs, clock, logCalls>>
            ELSE Return(WS_GenerationFailed(qo),
                        <<WS_GenerationFailedEntry(clock, uq, en, qo)>>)

\* The statements after the for loop
FallThrough(f, uq, en, m) ==
    Finish(f, uq, en, QO_MaxRetries(m), FV_MaxRetries(m),
           FV_MaxRetriesEntry(clock, uq, en, m))

\* The next iteration of `for attempt in range(1, max_retries + 1)`, or the
\* statements after the loop
Continue ==
    IF attempt + 1 <= max_retries
    THEN /\ attempt' = attempt + 1
         /\ pc' = "generating"
         /\ UNCHANGED <<query_result, result, fileLogs, clock, logCalls>>
    ELSE /\ FallThrough(fn, user_query, execution_number, max_retries)
         /\ UNCHANGED attempt

\* A caller enters one of the three entry points
Start(f, uq, en, enGiven, m, mGiven) ==
    LET e == IF enGiven THEN en ELSE DEFAULT_EXECUTION_NUMBER
        mr == IF mGiven THEN m ELSE DEFAULT_MAX_RETRIES
    IN  /\ pc = "idle"
        /\ fn' = f
        /\ user_query' = uq
        /\ execution_number' = e
        /\ max_retries' = mr
        /\ messages' = <<Message("system", QUERY_ANALYSIS_PROMPT), Message("user", uq)>>
        /\ IF 1 <= mr
           THEN /\ attempt' = 1
                /\ pc' = "generating"
                /\ UNCHANGED <<query_result, result, fileLogs, clock, logCalls>>
           ELSE /\ FallThrough(f, uq, e, mr)
                /\ UNCHANGED attempt
        /\ UNCHANGED <<flux_query, exec_result, genLog, execLog, summaryCalls>>
        /\ UNCHANGED writerVars
    /\ UNCHANGED pureVars
        /\ UNCHANGED pureVars

\* openai_client.chat.completions.create(...) and the handling of its response
Generate(out) ==
    /\ pc = "generating"
    /\ genLog' = Append(genLog, [attempt |-> attempt, out |-> out, messages |-> messages])
    /\ IF out.kind = "raise"
       THEN /\ IF IsLastAttempt(attempt, max_retries)
               THEN /\ Finish(fn, user_query, execution_number,
                              QO_GenerationError(out.msg, attempt),
                              FV_GenerationError(out.msg, attempt),
                              FV_GenerationErrorEntry(clock, user_query,
                                                      execution_number, out.msg,
                                                      attempt))
                    /\ UNCHANGED attempt
               ELSE Continue
            /\ UNCHANGED flux_query
       ELSE LET q == CleanResponse(out.raw)
            IN  /\ flux_query' = q
                /\ IF IsRefusal(q)
                   THEN Finish(fn, user_query, execution_number,
                               QO_Refused(q, attempt), FV_Refused(q, attempt),
                               FV_RefusedEntry(clock, user_query, q, execution_number,
                                               attempt))
                   ELSE /\ pc' = "validating"
                        /\ UNCHANGED <<query_result, result, fileLogs, clock, logCalls>>
                /\ UNCHANGED attempt
    /\ UNCHANGED <<fn, user_query, execution_number, max_retries, messages, exec_result,
                   execLog, summaryCalls>>
    /\ UNCHANGED writerVars
    /\ UNCHANGED pureVars

\* if result["success"] and result["row_count"] > 0
ExecSucceeded_NonEmpty(r) == r.success /\ r.row_count > 0

\* if result["success"]
ExecSucceeded(r) == r.success

\* FluxQueryService.execute_flux_query(flux_query, execution_number) inside the
\* loop, and the handling of its result
Validate(out) ==
    LET r == ExecuteFluxQuery(flux_query, execution_number, out)
    IN  /\ pc = "validating"
        /\ execLog' = Append(execLog,
                             [step |-> "validate", attempt |-> attempt,
                              query |-> flux_query,
                              sent |-> IF out.kind = "unavailable" THEN NoneText
                                       ELSE processed_query(flux_query, execution_number),
                              result |-> r])
        /\ IF ExecSucceeded(r)
           THEN /\ Finish(fn, user_query, execution_number,
                          QO_Succeeded(flux_query, attempt),
                          FV_Succeeded(flux_query, r, attempt),
                          FV_SucceededEntry(clock, user_query, flux_query,
                                            execution_number, r, attempt))
                /\ UNCHANGED <<attempt, messages>>
           ELSE IF ShouldRetry(attempt, max_retries)
           THEN /\ messages' =
                       messages \o
                       <<Message("assistant", flux_query),
                         Message("user",
                                 IF fn = "with_validation"
                                 THEN FV_error_feedback(r.error, flux_query)
                                 ELSE QO_error_feedback(r.error, flux_query))>>
                /\ Continue
           ELSE /\ Finish(fn, user_query, execution_number,
                          QO_Exhausted(flux_query, r.error, attempt),
                          FV_Exhausted(flux_query, r.error, attempt),
                          FV_ExhaustedEntry(clock, user_query, flux_query,
                                            execution_number, r, attempt))
                /\ UNCHANGED <<attempt, messages>>
        /\ UNCHANGED <<fn, user_query, execution_number, max_retries, flux_query,
                       exec_result, genLog, summaryCalls>>
        /\ UNCHANGED writerVars
    /\ UNCHANGED pureVars
        /\ UNCHANGED pureVars

Min(a, b) == IF a < b THEN a ELSE b

\* The query generate_summary builds to fetch failure_stack
failure_query(en) == <<"failure_stack query for", en>>

\* generate_summary fetches failure_stack when one of the first 5 rows has status
\* FAIL, no row has a failure_stack, one of the first 10 rows has a testname and
\* the execution number is not empty
NeedsFailureStack(data, en) ==
    /\ \E i \in 1..Min(5, Len(data)) :
           "status" \in DOMAIN data[i] /\ data[i]["status"] = "FAIL"
    /\ ~\E i \in 1..Len(data) : "failure_stack" \in DOMAIN data[i]
    /\ \E i \in 1..Min(10, Len(data)) : "testname" \in DOMAIN data[i]
    /\ en # ""

\* Step 2 of generate_query_with_summary: execute the validated query again
Execute(out) ==
    LET q == query_result.query
        attempts == query_result.attempts
        er == ExecuteFluxQuery(q, execution_number, out)
    IN  /\ pc = "executing"
        /\ execLog' = Append(execLog,
                             [step |-> "execute", attempt |-> attempts, query |-> q,
                              sent |-> IF out.kind = "unavailable" THEN NoneText
                                       ELSE processed_query(q, execution_number),
                              result |-> er])
        /\ exec_result' = er
        /\ IF ~er.success
           THEN Return(WS_ExecutionFailed(q, er, attempts),
                       <<WS_ExecutionFailedEntry(clock, user_query, q, execution_number,
                                                 er, attempts)>>)
           ELSE IF er.row_count > 0
           THEN /\ pc' = "summarizing"
                /\ UNCHANGED <<result, fileLogs, clock, logCalls>>
           ELSE Return(WS_Succeeded(q, er, NoResultsSummary, attempts),
                       <<WS_SucceededEntry(clock, user_query, q, execution_number,
                                           er.row_count, attempts)>>)
        /\ UNCHANGED <<fn, user_query, execution_number, max_retries, attempt, messages,
                       flux_query, query_result, genLog, summaryCalls>>
        /\ UNCHANGED writerVars
    /\ UNCHANGED pureVars
        /\ UNCHANGED pureVars

\* Step 3 of generate_query_with_summary for a result with rows: generate_summary
\* (the failure_stack fetch when needed, then the generator call), the log entry
\* and the return
Summarize(fetchOut, genOut) ==
    LET q == query_result.query
        attempts == query_result.attempts
        fetch == NeedsFailureStack(exec_result.data, execution_number)
        fq == failure_query(execution_number)
        summary == IF genOut.kind = "text" THEN Strip(genOut.raw)
                   ELSE SummaryFailed(exec_result.row_count, genOut.msg)
    IN  /\ pc = "summarizing"
        /\ execLog' =
               IF fetch
               THEN Append(execLog,
                           [step |-> "failure_stack", attempt |-> attempts, query |-> fq,
                            sent |-> IF fetchOut.kind = "unavailable" THEN NoneText
                                     ELSE processed_query(fq, execution_number),
                            result |-> ExecuteFluxQuery(fq, execution_number, fetchOut)])
               ELSE execLog
        /\ summaryCalls' = summaryCalls + 1
        /\ Return(WS_Succeeded(q, exec_result, summary, attempts),
                  <<WS_SucceededEntry(clock, user_query, q, execution_number,
                                      exec_result.row_count, attempts)>>)
        /\ UNCHANGED <<fn, user_query, execution_number, max_retries, attempt, messages,
                       flux_query, query_result, exec_result, genLog>>
        /\ UNCHANGED writerVars
    /\ UNCHANGED pureVars
        /\ UNCHANGED pureVars

EntryPoints == {"query_only", "with_validation", "with_summary"}

Next ==
    \/ \E f \in EntryPoints, uq \in UserQueries, en \in ExecutionNumbers,
          enGiven \in BOOLEAN, m \in 0..MaxAttempts, mGiven \in BOOLEAN :
           Start(f, uq, en, enGiven, m, mGiven)
    \/ \E out \in GenOutcomes : Generate(out)
    \/ \E out \in StoreOutcomes : Validate(out)
    \/ \E out \in StoreOutcomes : Execute(out)
    \/ \E fetchOut \in StoreOutcomes, genOut \in GenOutcomes : Summarize(fetchOut, genOut)

Spec == Init /\ [][Next]_vars

(***************************************************************************)
(* The audit log on its own: writers inside log_query, step by step, and   *)
(* a reader calling get_recent_logs                                        *)
(***************************************************************************)
\* A caller enters log_query: log_entry is built
LogStart(w, bound) ==
    /\ wpc[w] = "idle"
    /\ Len(logged) < bound
    /\ wentry' = [wentry EXCEPT ![w] =
                      LogEntry(clock, <<"request">>, <<"q1">>, DEFAULT_EXECUTION_NUMBER,
                               TRUE, 0, 1, NoneText)]
    /\ clock' = clock + 1
    /\ logged' = Append(logged, wentry'[w])
    /\ wpc' = [wpc EXCEPT ![w] = "read"]
    /\ recent' = NoResult
    /\ UNCHANGED <<wlogs, fileLogs>>
    /\ UNCHANGED orchVars
    /\ UNCHANGED pureVars

\* logs = self._read_logs()
LogRead(w) ==
    /\ wpc[w] = "read"
    /\ wlogs' = [wlogs EXCEPT ![w] = ReadLogs(fileLogs)]
    /\ wpc' = [wpc EXCEPT ![w] = "append"]
    /\ UNCHANGED <<wentry, logged, recent, fileLogs, clock>>
    /\ UNCHANGED orchVars
    /\ UNCHANGED pureVars

\* logs.append(log_entry) and the pruning to the last 1000 entries
LogAppend(w) ==
    /\ wpc[w] = "append"
    /\ wlogs' = [wlogs EXCEPT ![w] = PruneLogs(Append(wlogs[w], wentry[w]))]
    /\ wpc' = [wpc EXCEPT ![w] = "open"]
    /\ UNCHANGED <<wentry, logged, recent, fileLogs, clock>>
    /\ UNCHANGED orchVars
    /\ UNCHANGED pureVars

\* _write_logs: open(self.log_file_path, 'w') truncates the file
LogOpen(w) ==
    /\ wpc[w] = "open"
    /\ fileLogs' = <<>>
    /\ wpc' = [wpc EXCEPT ![w] = "dump"]
    /\ UNCHANGED <<wlogs, wentry, logged, recent, clock>>
    /\ UNCHANGED orchVars
    /\ UNCHANGED pureVars

\* _write_logs: json.dump(logs, f, indent=2) and the close of the file
LogDump(w) ==
    /\ wpc[w] = "dump"
    /\ fileLogs' = wlogs[w]
    /\ wpc' = [wpc EXCEPT ![w] = "idle"]
    /\ wlogs' = [wlogs EXCEPT ![w] = <<>>]
    /\ wentry' = [wentry EXCEPT ![w] = NoResult]
    /\ UNCHANGED <<logged, recent, clock>>
    /\ UNCHANGED orchVars
    /\ UNCHANGED pureVars

\* get_recent_logs(limit), called between log_query calls
Recent(limit) ==
    /\ \A w \in Writers : wpc[w] = "idle"
    /\ recent' = [limit |-> limit, logs |-> GetRecentLogs(fileLogs, limit),
                  file |-> fileLogs]
    /\ UNCHANGED <<wpc, wlogs, wentry, logged, fileLogs, clock>>
    /\ UNCHANGED orchVars
    /\ UNCHANGED pureVars

Limits == (0..MaxLimit) \cup {DefaultLimit}

\* One writer: log_query calls one after the other, and reads between them
NextLogger ==
    \/ LogStart(1, MaxLogCalls)
    \/ LogRead(1)
    \/ LogAppend(1)
    \/ LogOpen(1)
    \/ LogDump(1)
    \/ \E limit \in Limits : Recent(limit)

SpecLogger == Init /\ [][NextLogger]_vars

\* Several requests logging at once (one Streamlit session thread each)
NextConcurrent ==
    \/ \E w \in Writers : LogStart(w, MaxConcurrentCalls)
    \/ \E w \in Writers : LogRead(w)
    \/ \E w \in Writers : LogAppend(w)
    \/ \E w \in Writers : LogOpen(w)
    \/ \E w \in Writers : LogDump(w)

SpecConcurrent == Init /\ [][NextConcurrent]_vars

(***************************************************************************)
(* Properties of the retry loop                                            *)
(***************************************************************************)
LoopFns == {"query_only", "with_validation"}

LoggingFns == {"with_validation", "with_summary"}

IsText(g) == g.out.kind = "text"

Cleaned(g) == CleanResponse(g.out.raw)

IsSentinel(g) == IsText(g) /\ StartsWith(Cleaned(g), ErrorSentinel)

LoopEnded == pc \in {"executing", "summarizing", "done"}

\* What the retry loop returned
LoopResult == IF fn = "with_summary" THEN query_result ELSE result

\* C1: retry bound.  A finished run of generate_flux_query_only or
\* generate_flux_with_validation with max_retries >= 1 in which every generator
\* call returned a query (no refusal, no exception) and every store execution
\* failed has called the generator exactly max_retries times, executed
\* max_retries queries, and returns success = False, attempts = max_retries and
\* the error of the last (max_retries-th) execution.
C1_RetryBound ==
    (/\ pc = "done"
     /\ fn \in LoopFns
     /\ max_retries >= 1
     /\ \A i \in 1..Len(genLog) : IsText(genLog[i]) /\ ~IsSentinel(genLog[i])
     /\ \A j \in 1..Len(execLog) : ~execLog[j].result.success)
    => /\ Len(genLog) = max_retries
       /\ Len(execLog) = max_retries
       /\ result.success = FALSE
       /\ result.attempts = max_retries
       /\ execLog[max_retries].attempt = max_retries
       /\ result.error = execLog[max_retries].result.error

C1_Witness ==
    /\ pc = "done"
    /\ fn = "with_validation"
    /\ max_retries = 3
    /\ Len(genLog) = 3
    /\ \A i \in 1..Len(genLog) : IsText(genLog[i]) /\ ~IsSentinel(genLog[i])
    /\ Len(execLog) = 3
    /\ \A j \in 1..Len(execLog) : ~execLog[j].result.success
    /\ execLog[1].result.error # execLog[3].result.error
    /\ result.error = execLog[3].result.error

\* C2: retry success path.  A finished run of generate_flux_query_only or
\* generate_flux_with_validation whose last store execution, at attempt k,
\* succeeded (all earlier executions having failed) returns success = True,
\* attempts = k and the query text generated in attempt k, which is the text
\* that was executed at attempt k; k is the number of executions when the
\* generator never raised.
C2_RetrySuccess ==
    (/\ pc = "done"
     /\ fn \in LoopFns
     /\ execLog # <<>>
     /\ execLog[Len(execLog)].result.success)
    => LET e == execLog[Len(execLog)]
           g == genLog[Len(genLog)]
       IN  /\ result.success = TRUE
           /\ result.attempts = e.attempt
           /\ e.attempt <= max_retries
           /\ g.attempt = e.attempt
           /\ IsText(g)
           /\ result.query = Cleaned(g)
           /\ result.query = e.query
           /\ \A j \in 1..(Len(execLog) - 1) : ~execLog[j].result.success
           /\ (\A i \in 1..Len(genLog) : IsText(genLog[i])) => e.attempt = Len(execLog)

C2_Witness ==
    /\ pc = "done"
    /\ fn = "query_only"
    /\ Len(execLog) = 2
    /\ ~execLog[1].result.success
    /\ execLog[2].result.success
    /\ execLog[1].query # execLog[2].query
    /\ result.success = TRUE
    /\ result.attempts = 2
    /\ result.query = execLog[2].query

\* C3: a refusal is terminal.  Whenever the generator's response at attempt k,
\* as the code reads it (stripped of whitespace and fences), starts with
\* "ERROR:", that call is the last generator call, the run is finished with
\* success = False, error = that text and attempts = k, no store execution was
\* made at attempt k, the text was never executed, and no summary was asked for.
C3_RefusalTerminal ==
    \A i \in 1..Len(genLog) :
        IsSentinel(genLog[i])
        => /\ i = Len(genLog)
           /\ pc = "done"
           /\ result.success = FALSE
           /\ result.error = Cleaned(genLog[i])
           /\ result.query = Cleaned(genLog[i])
           /\ result.attempts = genLog[i].attempt
           /\ \A j \in 1..Len(execLog) :
                  /\ execLog[j].attempt # genLog[i].attempt
                  /\ execLog[j].query # Cleaned(genLog[i])
           /\ summaryCalls = 0

C3_Witness ==
    /\ pc = "done"
    /\ max_retries = 3
    /\ Len(genLog) = 2
    /\ IsSentinel(genLog[2])
    /\ genLog[2].out.raw = <<ErrorSentinel, "unsupported">>
    /\ result.error = <<ErrorSentinel, "unsupported">>
    /\ result.attempts = 2
    /\ Len(execLog) = 1

\* C4: an unavailable collaborator is terminal on first occurrence.  Whenever
\* the generator call raised, or the store client was missing, at an attempt
\* k < max_retries, the retry loop has ended at attempt k with a failure and
\* nothing was attempted after it.
C4_UnavailableTerminal ==
    /\ \A i \in 1..Len(genLog) :
           (genLog[i].out.kind = "raise" /\ genLog[i].attempt < max_retries)
           => /\ i = Len(genLog)
              /\ LoopEnded
              /\ LoopResult.success = FALSE
              /\ LoopResult.attempts = genLog[i].attempt
    /\ \A j \in 1..Len(execLog) :
           (/\ execLog[j].step = "validate"
            /\ execLog[j].result.error = ClientNotInitialized
            /\ execLog[j].attempt < max_retries)
           => /\ j = Len(execLog)
              /\ LoopEnded
              /\ LoopResult.success = FALSE
              /\ LoopResult.attempts = execLog[j].attempt

\* C5: a failed run returns the last attempted query text.  A finished run with
\* success = False in which some attempt produced a response text returns, and
\* logs, the most recent such text as its query, never the empty text.
C5_FailureCarriesLastQuery ==
    (/\ pc = "done"
     /\ result.success = FALSE
     /\ \E i \in 1..Len(genLog) : IsText(genLog[i]))
    => LET last == CHOOSE i \in 1..Len(genLog) :
                       /\ IsText(genLog[i])
                       /\ \A k \in (i + 1)..Len(genLog) : ~IsText(genLog[k])
       IN  /\ result.query = Cleaned(genLog[last])
           /\ result.query # <<>>
           /\ fn \in LoggingFns => logCalls[1].flux_query = Cleaned(genLog[last])

\* C6: one audit entry per run.  In a run of generate_flux_with_validation or
\* generate_query_with_summary nothing is logged before the run returns, and
\* when it has returned exactly one entry has been handed to log_query and
\* stored, whose user_query is the request and whose flux_query, success,
\* row_count, attempts and error equal the fields of the returned result.
C6_LoggedOnce ==
    fn \in LoggingFns
    => /\ pc # "done" => (logCalls = <<>> /\ fileLogs = <<>>)
       /\ pc = "done"
          => /\ Len(logCalls) = 1
             /\ fileLogs = logCalls
             /\ logCalls[1].user_query = user_query
             /\ logCalls[1].flux_query = result.query
             /\ logCalls[1].success = result.success
             /\ logCalls[1].row_count = result.row_count
             /\ logCalls[1].attempts = result.attempts
             /\ logCalls[1].error = result.error

C6_Witness ==
    /\ pc = "done"
    /\ fn = "with_summary"
    /\ result.success = TRUE
    /\ result.row_count = 2
    /\ result.attempts = 2
    /\ Len(logCalls) = 1
    /\ logCalls[1].attempts = 2
    /\ logCalls[1].row_count = 2

WritersIdle == \A w \in Writers : wpc[w] = "idle"

\* The last n elements of s (all of s when it is shorter)
LastN(s, n) == SubSeq(s, Len(s) - Min(Len(s), n) + 1, Len(s))

InFile(e) == \E i \in 1..Len(fileLogs) : fileLogs[i] = e

C9_NoEntryLost ==
    (WritersIdle /\ Len(logged) <= LogLimit)
    => /\ \A i \in 1..Len(logged) : InFile(logged[i])
       /\ fileLogs = logged

\* C10: get_recent_logs(limit) returns at most limit entries, for every
\* limit >= 0, and they are the last entries of the log in log order; the file is
\* left as it was.
C10_RecentAtMostLimit ==
    recent # NoResult
    => /\ Len(recent.logs) <= recent.limit
       /\ recent.logs = LastN(recent.file, recent.limit)
       /\ fileLogs = recent.file

(***************************************************************************)
(* Strings and regular expressions (Python str and re), for the intent     *)
(* classifier and the failure categorizer.  A string is a TLA+ string, its *)
(* i-th character is the one-character string SubSeq(s, i, i).             *)
(***************************************************************************)
UpperLetters == "ABCDEFGHIJKLMNOPQRSTUVWXYZ"

LowerLetters == "abcdefghijklmnopqrstuvwxyz"

DigitChars == {"0", "1", "2", "3", "4", "5", "6", "7", "8", "9"}

\* \s
SpaceChars == {" ", "\t", "\n", "\r", "\f"}

\* [A-Za-z]
AlphaChars ==
    {SubSeq(UpperLetters \o LowerLetters, k, k) : k \in 1..Len(UpperLetters \o LowerLetters)}

\* str.lower() of the upper-case letters
LowerTable ==
    [c \in {SubSeq(UpperLetters, k, k) : k \in 1..Len(UpperLetters)} |->
        LET k == CHOOSE i \in 1..Len(UpperLetters) : SubSeq(UpperLetters, i, i) = c
        IN  SubSeq(LowerLetters, k, k)]

\* str.lower(), character by character
RECURSIVE StrLower(_)
StrLower(str) ==
    IF str = "" THEN ""
    ELSE IF Len(str) = 1 THEN (IF str \in DOMAIN LowerTable THEN LowerTable[str] ELSE str)
    ELSE StrLower(SubSeq(str, 1, Len(str) \div 2))
            \o StrLower(SubSeq(str, Len(str) \div 2 + 1, Len(str)))

CharAt(str, i) == SubSeq(str, i, i)

\* `sub in str`
Contains(str, sub) ==
    \E i \in 1..(Len(str) - Len(sub) + 1) : SubSeq(str, i, i + Len(sub) - 1) = sub

\* Does character c belong to the class cls: "s" is \s, "d" is \d, "S" is \S,
\* "a" is [A-Za-z], "w" is [A-Za-z0-9_]
InClass(c, cls) ==
    IF cls = "s" THEN c \in SpaceChars
    ELSE IF cls = "d" THEN c \in DigitChars
    ELSE IF cls = "S" THEN c \notin SpaceChars
    ELSE IF cls = "a" THEN c \in AlphaChars
    ELSE c \in AlphaChars \cup DigitChars \cup {"_"}

\* The length of the longest run of class cls in str from position pos
RunLength(str, pos, cls) ==
    LET stops == {k \in pos..Len(str) : ~InClass(CharAt(str, k), cls)}
    IN  IF stops = {}
        THEN Len(str) + 1 - pos
        ELSE (CHOOSE k \in stops : \A j \in stops : k <= j) - pos

\* Pattern items.  A pattern is a sequence of items.
Lit(str) == [t |-> "lit", s |-> str]

\* cls+ or cls*, greedy; lo is the least length, a capturing group when cap
Run(cls, lo, cap) == [t |-> "run", cls |-> cls, lo |-> lo, cap |-> cap]

\* ([A-Za-z][A-Za-z0-9_]*)
IdentGroup == [t |-> "ident"]

\* (?:pattern)?
Opt(pattern) == [t |-> "opt", sub |-> pattern]

\* (?:a|b|c), the alternatives being literal strings
Alt(alts) == [t |-> "alt", alts |-> alts]

Sp == Run("s", 1, FALSE)

Sp0 == Run("s", 0, FALSE)

DigitsGroup == Run("d", 1, TRUE)

NonSpaceGroup == Run("S", 1, TRUE)

NoMatch == [ok |-> FALSE, start |-> 0, end |-> 0, groups |-> <<>>]

\* re.match at position pos: what the backtracking matcher of Python finds
\* first.  ic is re.IGNORECASE (the patterns are in lower case).  `end` is
\* the position after the last matched character.
RECURSIVE MatchHere(_, _, _, _, _)
RECURSIVE TryRun(_, _, _, _, _, _, _, _)
RECURSIVE TryAlts(_, _, _, _, _, _)
MatchHere(str, pattern, pos, groups, ic) ==
    IF pattern = <<>>
    THEN [ok |-> TRUE, start |-> 0, end |-> pos, groups |-> groups]
    ELSE LET it == Head(pattern)
             rest == Tail(pattern)
         IN  IF it.t = "lit"
             THEN LET piece == SubSeq(str, pos, pos + Len(it.s) - 1)
                  IN  IF pos + Len(it.s) - 1 <= Len(str)
                         /\ (IF ic THEN StrLower(piece) ELSE piece) = it.s
                      THEN MatchHere(str, rest, pos + Len(it.s), groups, ic)
                      ELSE NoMatch
             ELSE IF it.t = "run"
             THEN TryRun(str, rest, pos, RunLength(str, pos, it.cls), it.lo, it.cap,
                         groups, ic)
             ELSE IF it.t = "ident"
             THEN IF pos <= Len(str) /\ InClass(CharAt(str, pos), "a")
                  THEN TryRun(str, rest, pos, 1 + RunLength(str, pos + 1, "w"), 1, TRUE,
                              groups, ic)
                  ELSE NoMatch
             ELSE IF it.t = "opt"
             THEN LET with == MatchHere(str, it.sub \o rest, pos, groups, ic)
                  IN  IF with.ok THEN with ELSE MatchHere(str, rest, pos, groups, ic)
             ELSE TryAlts(str, it.alts, rest, pos, groups, ic)

\* A greedy run: the longest length n first, then shorter ones down to lo
TryRun(str, rest, pos, n, lo, cap, groups, ic) ==
    IF n < lo
    THEN NoMatch
    ELSE LET g == IF cap THEN Append(groups, SubSeq(str, pos, pos + n - 1)) ELSE groups
             r == MatchHere(str, rest, pos + n, g, ic)
         IN  IF r.ok THEN r ELSE TryRun(str, rest, pos, n - 1, lo, cap, groups, ic)

\* The alternatives in order
TryAlts(str, alts, rest, pos, groups, ic) ==
    IF alts = <<>>
    THEN NoMatch
    ELSE LET r == MatchHere(str, <<Lit(Head(alts))>> \o rest, pos, groups, ic)
         IN  IF r.ok THEN r ELSE TryAlts(str, Tail(alts), rest, pos, groups, ic)

\* re.search(pattern, str): the match at the leftmost position that has one
SearchWith(str, pattern, ic) ==
    LET starts == {pos \in 1..(Len(str) + 1) : MatchHere(str, pattern, pos, <<>>, ic).ok}
        first == CHOOSE pos \in starts : \A other \in starts : pos <= other
    IN  IF starts = {}
        THEN NoMatch
        ELSE [MatchHere(str, pattern, first, <<>>, ic) EXCEPT !.start = first]

Search(pattern, str) == SearchWith(str, pattern, FALSE)

SearchIgnoreCase(pattern, str) == SearchWith(str, pattern, TRUE)

\* len(match.groups()): the number of capturing groups of a pattern
RECURSIVE GroupCount(_)
GroupCount(pattern) ==
    IF pattern = <<>>
    THEN 0
    ELSE LET it == Head(pattern)
         IN  (IF it.t = "ident" \/ (it.t = "run" /\ it.cap) THEN 1
              ELSE IF it.t = "opt" THEN GroupCount(it.sub)
              ELSE 0) + GroupCount(Tail(pattern))

(***************************************************************************)
(* The intent classifier, detect_summary_request of app.py.                *)
(***************************************************************************)
\* str.strip()
StrStrip(str) ==
    LET inner == {i \in 1..Len(str) : SubSeq(str, i, i) \notin SpaceChars}
    IN  IF inner = {} THEN ""
        ELSE SubSeq(str, CHOOSE i \in inner : \A j \in inner : i <= j,
                         CHOOSE i \in inner : \A j \in inner : j <= i)

\* int(str) of a run of digits
RECURSIVE StrToInt(_)
StrToInt(str) ==
    IF str = "" THEN 0
    ELSE 10 * StrToInt(SubSeq(str, 1, Len(str) - 1))
         + (CHOOSE d \in 0..9 : ToString(d) = SubSeq(str, Len(str), Len(str)))

\* The parameter of a detected request: None, a string, an integer or a
\* pair of strings
NoParam == [k |-> "none"]

StrParam(str) == [k |-> "str", s |-> str]

IntParam(n) == [k |-> "int", n |-> n]

PairParam(a, b) == [k |-> "pair", a |-> a, b |-> b]

\* The tuple the classifier returns; the type "None" is Python's None
Detected(type, param) == [type |-> type, param |-> param]

\* What a rule of the cascade yields when it does not apply
NotDetected == [type |-> "", param |-> NoParam]

\* (?:<lead>\s+me\s+)?about\s+<word>\s+(\d+)
AboutNumber(lead, word) ==
    <<Opt(<<Lit(lead), Sp, Lit("me"), Sp>>), Lit("about"), Sp, Lit(word), Sp, DigitsGroup>>

build_summary_patterns ==
    << AboutNumber("give", "build"),
       AboutNumber("give", "execution"),
       AboutNumber("tell", "build"),
       AboutNumber("tell", "execution"),
       <<Lit("build"), Sp, Lit("summary")>>,
       <<Lit("summary"), Sp, Lit("of"), Sp, Lit("build")>>,
       <<Lit("build"), Sp, DigitsGroup, Sp, Lit("summary")>>,
       <<Lit("execution"), Sp, DigitsGroup, Sp, Lit("summary")>>,
       <<Lit("latest"), Sp, Lit("build"), Sp, Lit("summary")>>,
       <<Lit("current"), Sp, Lit("build"), Sp, Lit("summary")>>,
       <<Lit("show"), Sp, Lit("me"), Sp, Lit("build"), Sp, DigitsGroup>>,
       <<Lit("show"), Sp, Lit("me"), Sp, Lit("execution"), Sp, DigitsGroup>>,
       <<Lit("info"), Sp, Lit("about"), Sp, Lit("build"), Sp, DigitsGroup>>,
       <<Lit("info"), Sp, Lit("about"), Sp, Lit("execution"), Sp, DigitsGroup>> >>

\* (?:build|execution)\s+(\d+)
exec_pattern == <<Alt(<<"build", "execution">>), Sp, DigitsGroup>>

script_patterns ==
    << <<Lit("about"), Sp, Alt(<<"script", "test">>), Sp, IdentGroup>>,
       <<Lit("summary"), Sp, Lit("of"), Sp, Alt(<<"script", "test">>), Sp, IdentGroup>>,
       <<Lit("analyze"), Sp, Alt(<<"script", "test">>), Sp, IdentGroup>>,
       <<Lit("tell"), Sp, Lit("me"), Sp, Lit("about"), Sp, IdentGroup>>,
       <<Lit("give"), Sp, Lit("me"), Sp, Lit("about"), Sp, IdentGroup>>,
       <<Lit("what"), Sp, Lit("about"), Sp, IdentGroup>>,
       <<Lit("explain"), Sp, IdentGroup>> >>

summary_about_pattern ==
    <<Opt(<<Lit("give"), Sp, Lit("me"), Sp>>), Lit("summary"), Sp, Lit("about"), Sp, NonSpaceGroup>>

about_pattern == <<Lit("about"), Sp, IdentGroup>>

about_keyword_pattern == <<Lit("about"), Sp, Alt(<<"script", "test", "build", "execution">>)>>

top_pattern == <<Lit("top"), Sp, DigitsGroup>>

Plural(word) == <<Lit(word), Opt(<<Lit("s")>>)>>

flaky_patterns ==
    << <<Lit("flaky"), Sp>> \o Plural("script") \o <<Sp, Lit("summary")>>,
       <<Lit("summary"), Sp, Lit("of"), Sp, Lit("flaky"), Sp>> \o Plural("script"),
       <<Lit("flaky"), Sp>> \o Plural("test") \o <<Sp, Lit("summary")>>,
       <<Lit("unstable"), Sp>> \o Plural("script") \o <<Sp, Lit("summary")>> >>

\* (?:and|vs|with)
AndVsWith == Alt(<<"and", "vs", "with">>)

comparison_patterns ==
    << <<Lit("compare"), Sp>> \o Plural("build") \o <<Sp, DigitsGroup, Sp, AndVsWith, Sp, DigitsGroup>>,
       <<Lit("compare"), Sp>> \o Plural("build") \o <<Sp, DigitsGroup, Sp0, Lit(","), Sp0, DigitsGroup>>,
       <<Lit("compare"), Sp>> \o Plural("execution") \o <<Sp, DigitsGroup, Sp, AndVsWith, Sp, DigitsGroup>>,
       <<Lit("compare"), Sp>> \o Plural("execution") \o <<Sp, DigitsGroup, Sp0, Lit(","), Sp0, DigitsGroup>>,
       Plural("build") \o <<Sp, DigitsGroup, Sp, AndVsWith, Sp>> \o Plural("build") \o <<Sp, DigitsGroup>>,
       Plural("execution") \o <<Sp, DigitsGroup, Sp, AndVsWith, Sp>> \o Plural("execution") \o <<Sp, DigitsGroup>>,
       <<Lit("compare"), Sp, Lit("build"), Sp, DigitsGroup, Sp, Lit("vs"), Sp, DigitsGroup>>,
       <<Lit("compare"), Sp, Lit("execution"), Sp, DigitsGroup, Sp, Lit("vs"), Sp, DigitsGroup>>,
       <<Lit("build"), Sp, DigitsGroup, Sp, Lit("vs"), Sp, Lit("build"), Sp, DigitsGroup>>,
       <<Lit("execution"), Sp, DigitsGroup, Sp, Lit("vs"), Sp, Lit("execution"), Sp, DigitsGroup>>,
       <<Lit("compare"), Sp, Lit("build")>>,
       <<Lit("compare"), Sp, Lit("execution")>>,
       <<Lit("compare"), Sp>> \o Plural("build"),
       <<Lit("build"), Sp, Lit("comparison")>>,
       <<Lit("compare"), Sp, Lit("yesterday"), Sp, Lit("vs"), Sp, Lit("today")>>,
       <<Lit("yesterday"), Sp, Lit("vs"), Sp, Lit("today")>>,
       <<Lit("compare"), Sp, Lit("previous"), Sp, Lit("vs"), Sp, Lit("current")>>,
       <<Lit("previous"), Sp, Lit("build"), Sp, Lit("vs"), Sp, Lit("current")>>,
       <<Lit("last"), Sp, Lit("build"), Sp, Lit("vs"), Sp, Lit("current")>> >>

\* `for pattern in patterns: match = re.search(pattern, str); if match:`
\* the index of the first pattern that matches, 0 when none does
RECURSIVE FirstMatching(_, _, _)
FirstMatching(patterns, str, k) ==
    IF k > Len(patterns) THEN 0
    ELSE IF Search(patterns[k], str).ok THEN k
    ELSE FirstMatching(patterns, str, k + 1)

\* Rule 1, build summary
DetectBuildSummary(query_lower) ==
    LET k == FirstMatching(build_summary_patterns, query_lower, 1)
    IN  IF k = 0
        THEN NotDetected
        ELSE IF GroupCount(build_summary_patterns[k]) > 0
        THEN Detected("build_summary",
                      StrParam(Search(build_summary_patterns[k], query_lower).groups[1]))
        ELSE LET exec_match == Search(exec_pattern, query_lower)
             IN  Detected("build_summary",
                          IF exec_match.ok THEN StrParam(exec_match.groups[1]) ELSE NoParam)

\* Rule 2, the script summary forms with a keyword: the name is taken from
\* the lower-cased text
DetectScriptKeyword(query_lower) ==
    LET k == FirstMatching(script_patterns, query_lower, 1)
    IN  IF k = 0
        THEN NotDetected
        ELSE Detected("script_summary",
                      StrParam(Search(script_patterns[k], query_lower).groups[1]))

\* Rule 2, "summary about <name>": the name is taken from the original text
DetectSummaryAbout(original, query_lower) ==
    LET match == Search(summary_about_pattern, query_lower)
        original_match == SearchIgnoreCase(summary_about_pattern, original)
    IN  IF ~match.ok
        THEN NotDetected
        ELSE IF original_match.ok
        THEN Detected("script_summary", StrParam(StrStrip(original_match.groups[1])))
        ELSE Detected("script_summary", StrParam(StrStrip(match.groups[1])))

\* Rule 2, bare "about <name>", unless a number follows the name
DetectBareAbout(original, query_lower) ==
    LET about_match == SearchIgnoreCase(about_pattern, query_lower)
        after_about == StrStrip(SubSeq(query_lower, about_match.end, Len(query_lower)))
        original_match == SearchIgnoreCase(about_pattern, original)
    IN  IF about_match.ok /\ ~Search(about_keyword_pattern, query_lower).ok
           /\ ~(after_about # "" /\ SubSeq(after_about, 1, 1) \in DigitChars)
           /\ original_match.ok
        THEN Detected("script_summary", StrParam(original_match.groups[1]))
        ELSE NotDetected

DefaultTopLimit == 10

\* int(str) raises ValueError when str has more digits than the interpreter
\* converts (sys.int_info.default_max_str_digits of CPython)
MaxStrDigits == 4300

\* An exception leaving the classifier
Raised(error) == [type |-> error, param |-> NoParam]

\* Rules 3 and 4, top flaky and top failing
DetectTop(query_lower, word, type) ==
    LET number_match == Search(top_pattern, query_lower)
    IN  IF Contains(query_lower, "top") /\ Contains(query_lower, word)
        THEN IF ~number_match.ok
             THEN Detected(type, IntParam(DefaultTopLimit))
             ELSE IF Len(number_match.groups[1]) > MaxStrDigits
             THEN Raised("ValueError")
             ELSE Detected(type, IntParam(StrToInt(number_match.groups[1])))
        ELSE NotDetected

\* Rule 5, flaky summary
DetectFlakySummary(query_lower) ==
    IF FirstMatching(flaky_patterns, query_lower, 1) # 0
    THEN Detected("flaky_summary", NoParam)
    ELSE NotDetected

\* Rule 6, build comparison
DetectBuildComparison(query_lower) ==
    LET k == FirstMatching(comparison_patterns, query_lower, 1)
        match == Search(comparison_patterns[k], query_lower)
    IN  IF k = 0
        THEN NotDetected
        ELSE IF GroupCount(comparison_patterns[k]) = 2
        THEN Detected("build_comparison", PairParam(match.groups[1], match.groups[2]))
        ELSE Detected("build_comparison", NoParam)

\* Rule 2
DetectScriptSummary(original, query_lower) ==
    LET keyword == DetectScriptKeyword(query_lower)
        summary_about == DetectSummaryAbout(original, query_lower)
    IN  IF keyword # NotDetected THEN keyword
        ELSE IF summary_about # NotDetected THEN summary_about
        ELSE DetectBareAbout(original, query_lower)

\* Rules 3 to 6 and the fall-through
DetectAfterSummaries(query_lower) ==
    LET top_flaky == DetectTop(query_lower, "flaky", "top_flaky")
        top_failing == DetectTop(query_lower, "failing", "top_failing")
        flaky == DetectFlakySummary(query_lower)
        comparison == DetectBuildComparison(query_lower)
    IN  IF top_flaky # NotDetected THEN top_flaky
        ELSE IF top_failing # NotDetected THEN top_failing
        ELSE IF flaky # NotDetected THEN flaky
        ELSE IF comparison # NotDetected THEN comparison
        ELSE Detected("None", NoParam)

\* The cascade with rule 2 tried before rule 1
detect_summary_request_ScriptFirst(original) ==
    LET query_lower == StrLower(original)
        build == DetectBuildSummary(query_lower)
        script == DetectScriptSummary(original, query_lower)
    IN  IF script # NotDetected THEN script
        ELSE IF build # NotDetected THEN build
        ELSE DetectAfterSummaries(query_lower)

detect_summary_request(original) ==
    LET query_lower == StrLower(original)
        build == DetectBuildSummary(query_lower)
        script == DetectScriptSummary(original, query_lower)
    IN  IF build # NotDetected THEN build
        ELSE IF script # NotDetected THEN script
        ELSE DetectAfterSummaries(query_lower)

(***************************************************************************)
(* The requests the classifier is checked on: every phrase of the rules    *)
(* with script names, numbers, leading and trailing words around it.       *)
(***************************************************************************)
MaxNumber == 12

Numbers == {ToString(n) : n \in 0..MaxNumber}

ScriptNames == {"MyTest", "foo", "Login_Test2"}

\* The script summary forms, with a name and with or without a number after
ScriptRequests ==
    {lead \o form \o name \o trail :
        lead \in {"", "please "},
        form \in {"about script ", "about test ", "summary of script ", "summary of  test ",
                  "analyze script ", "Analyze test ", "tell me about ", "Tell me about ",
                  "give me about ", "what about ", "explain ",
                  "summary about ", "give me summary about ", "about ", "About "},
        name \in ScriptNames,
        trail \in {"", " 12", " please"}}

\* The build summary forms
BuildRequests ==
    {lead \o form \o number \o trail :
        lead \in {"", "please "},
        form \in {"about build ", "About Build ", "about execution ", "tell me about build ",
                  "give me about execution ", "what about build ", "what about execution ",
                  "explain about build ", "summary about build ", "show me build ",
                  "info about execution ", "about  build  "},
        number \in Numbers,
        trail \in {"", " summary"}}
    \cup {"build summary", "summary of build", "latest build summary",
          "current build summary", "build summary for execution 9",
          "summary of build 4", "build 7 summary", "execution 8 summary",
          "about build", "about build x", "about execution"}

Separators == {" vs ", " and ", " with ", ", ", ",", " versus ", " to ", " "}

\* The comparison forms, with no, one, two and three numbers
ComparisonRequests ==
    {"compare " \o word \o first \o sep \o second :
        word \in {"build ", "builds "}, first \in Numbers, sep \in Separators,
        second \in Numbers}
    \cup {"compare build 1" \o sep \o "2" \o more \o "3" :
            sep \in Separators, more \in Separators}
    \cup {"compare " \o word \o number : word \in {"build ", "executions "}, number \in Numbers}
    \cup {"compare execution 1 vs 2", "compare executions 3 with 4", "Compare Builds 5 And 6",
          "build 1 vs build 2", "builds 1 and builds 2", "execution 1 vs execution 2",
          "build 1 versus build 2", "compare builds", "compare build", "compare execution",
          "build comparison", "compare yesterday vs today", "yesterday vs today",
          "compare previous vs current", "previous build vs current",
          "last build vs current", "compare", "compare 1 and 2"}

\* str * n
RECURSIVE Repeat(_, _)
Repeat(str, n) ==
    IF n = 0 THEN ""
    ELSE IF n = 1 THEN str
    ELSE Repeat(str, n \div 2) \o Repeat(str, n - n \div 2)

\* The top requests, among them two with a number of more digits than int
\* converts
TopRequests ==
    {lead \o top \o kind \o trail :
        lead \in {"", "show ", "s", "lap"},
        top \in {"top", "top 5", "TOP  7", "top 007", "top5"},
        kind \in {"", " flaky", " failing", " flaky failing", " failing flaky", " Flaky"},
        trail \in {"", " tests", " scripts summary", " compare builds 1 and 2"}}
    \cup {"flaky top 3", "failing tests top 4", "flaky", "failing", "flaky 5 top",
          "flaky scripts summary top 2", "compare builds 1 and 2 top flaky"}
    \cup {"top " \o Repeat("1", MaxStrDigits + 1) \o kind : kind \in {" flaky", " failing"}}

\* The flaky summary forms, and texts of no form
OtherRequests ==
    {"flaky scripts summary", "flaky script summary", "summary of flaky scripts",
     "summary of flaky script", "flaky tests summary", "flaky test summary",
     "unstable scripts summary", "Flaky Scripts Summary", "flaky summary",
     "unstable tests summary",
     "hello", "x", " ", "12", "about", "about 12", "show me", "summary", "tell me"}

Requests ==
    ScriptRequests \cup BuildRequests \cup ComparisonRequests \cup TopRequests
    \cup OtherRequests

\* One call of the classifier
Detect ==
    /\ detected = NoResult
    /\ \E text \in Requests :
        /\ request_text' = text
        /\ detected' = detect_summary_request(text)
    /\ UNCHANGED <<serviceVars, aggregationVars, categorizerVars, summaryVars, storeVars>>

SpecClassifier == Init /\ [][Detect]_vars

(***************************************************************************)
(* Properties of the intent classifier                                     *)
(***************************************************************************)
Classified == detected # NoResult

\* The positions at which sub occurs in str
Occurrences(str, sub) ==
    {i \in 1..(Len(str) - Len(sub) + 1) : SubSeq(str, i, i + Len(sub) - 1) = sub}

\* Does sub occur in str at position pos
StartsAt(str, pos, sub) ==
    pos + Len(sub) - 1 <= Len(str) /\ SubSeq(str, pos, pos + Len(sub) - 1) = sub

\* The first position from pos on that holds no white space
SkipSpaces(str, pos) == pos + RunLength(str, pos, "s")

\* The run of digits of str that starts at pos
DigitsAt(str, pos) == SubSeq(str, pos, pos + RunLength(str, pos, "d") - 1)

\* The numbers <digits> of the occurrences of "<phrase> <word> <digits>" in
\* str, any white space between the words
NumbersAfter(str, phrase, word) ==
    {DigitsAt(str, SkipSpaces(str, SkipSpaces(str, i + Len(phrase)) + Len(word))) :
        i \in {i \in Occurrences(str, phrase) :
                LET w == SkipSpaces(str, i + Len(phrase))
                    d == SkipSpaces(str, w + Len(word))
                IN  /\ w > i + Len(phrase)
                    /\ StartsAt(str, w, word)
                    /\ d > w + Len(word)
                    /\ DigitsAt(str, d) # ""}}

AboutTargets(str) == NumbersAfter(str, "about", "build") \cup NumbersAfter(str, "about", "execution")

\* C11: a request whose text contains "about build <digits>" or "about
\* execution <digits>", in any letter case, is classified build_summary with
\* those digits as a string for parameter, whatever script summary form
\* ("what about", "tell me about", "explain", ...) the text also contains.
C11_BuildPrecedence ==
    (Classified /\ AboutTargets(StrLower(request_text)) # {})
        => /\ detected.type = "build_summary"
           /\ detected.param.k = "str"
           /\ detected.param.s \in AboutTargets(StrLower(request_text))

C11_Witness ==
    /\ request_text = "what about build 12"
    /\ detected = Detected("build_summary", StrParam("12"))

OutcomeTypes ==
    {"build_summary", "script_summary", "top_flaky", "top_failing", "flaky_summary",
     "build_comparison", "None"}

\* C12: the classifier is total: every request text gets exactly one of the
\* seven outcomes (the six request types, or None when no rule applies) and
\* no error leaves the classifier.
C12_Total == Classified => detected.type \in OutcomeTypes

\* C13: the script name of a script_summary result is a piece of the request
\* as it was typed, in its original letter case, whichever script summary
\* form the request uses.
C13_CasePreserved ==
    (Classified /\ detected.type = "script_summary")
        => Contains(request_text, detected.param.s)

\* Is some occurrence of name in str, whatever the letter case, followed by
\* white space and then a digit
FollowedByDigits(str, name) ==
    \E i \in Occurrences(StrLower(str), StrLower(name)) :
        LET d == SkipSpaces(str, i + Len(name))
        IN  d > i + Len(name) /\ DigitsAt(str, d) # ""

\* C14: a request in which the captured script name is followed, after white
\* space, by digits is not classified script_summary, whichever script
\* summary form the request uses.
C14_DigitExclusion ==
    (Classified /\ detected.type = "script_summary")
        => ~FollowedByDigits(request_text, detected.param.s)

\* The positions at which a number (a maximal run of digits) of str starts
NumberStarts(str) ==
    {i \in 1..Len(str) :
        /\ CharAt(str, i) \in DigitChars
        /\ (i = 1 \/ CharAt(str, i - 1) \notin DigitChars)}

\* The numbers of str in the order of the text
NumbersIn(str) ==
    LET starts == NumberStarts(str)
    IN  [k \in 1..Cardinality(starts) |->
            DigitsAt(str, CHOOSE i \in starts : Cardinality({j \in starts : j < i}) = k - 1)]

\* C15: a request classified build_comparison that holds exactly two numbers
\* carries them as a pair of strings in the order of the text, whatever
\* words separate them; with fewer or more numbers it carries no parameter.
C15_ComparisonPair ==
    (Classified /\ detected.type = "build_comparison")
        => LET numbers == NumbersIn(request_text)
           IN  IF Len(numbers) = 2
               THEN detected.param = PairParam(numbers[1], numbers[2])
               ELSE detected.param = NoParam

\* The positions of the occurrences of "top <digits>" in str
TopNumberStarts(str) ==
    {i \in Occurrences(str, "top") :
        LET d == SkipSpaces(str, i + 3)
        IN  d > i + 3 /\ DigitsAt(str, d) # ""}

\* The digits of the first "top <digits>" of str
FirstTopNumber(str) ==
    LET starts == TopNumberStarts(str)
        first == CHOOSE i \in starts : \A j \in starts : i <= j
    IN  DigitsAt(str, SkipSpaces(str, first + 3))

\* Is detected the request type with the limit of the lower-cased text str
IsTop(type, str) ==
    /\ detected.type = type
    /\ detected.param.k = "int"
    /\ detected.param.n = IF TopNumberStarts(str) = {}
                          THEN DefaultTopLimit
                          ELSE StrToInt(FirstTopNumber(str))

\* C16: a request that neither the build summary nor the script summary
\* rule takes is classified top_flaky when its lower-cased text contains
\* "top" and "flaky", else top_failing when it contains "top" and "failing",
\* with for limit the integer of the first "top <digits>" and 10 without
\* one, also when the text is a flaky summary or a comparison phrase; and
\* it is neither of the two otherwise.
C16_TopRules ==
    (Classified /\ detected.type \notin {"build_summary", "script_summary"})
        => LET str == StrLower(request_text)
           IN  IF Contains(str, "top") /\ Contains(str, "flaky")
               THEN IsTop("top_flaky", str)
               ELSE IF Contains(str, "top") /\ Contains(str, "failing")
               THEN IsTop("top_failing", str)
               ELSE detected.type \notin {"top_flaky", "top_failing"}

(***************************************************************************)
(* The result table of app.py: the rows of a result are loaded in a pandas *)
(* DataFrame and deduplicated by testname before display.  A row is a      *)
(* function from its column names to cells; a cell is a string, a number,  *)
(* or NaN where the row has no value for the column.                       *)
(***************************************************************************)
NaN == [k |-> "nan"]

StrCell(str) == [k |-> "str", s |-> str]

NumCell(n) == [k |-> "num", n |-> n]

\* pd.DataFrame(result["data"]): the columns are the keys of all the rows,
\* a row without a key gets NaN
DataFrame(data) ==
    LET columns == UNION {DOMAIN data[i] : i \in DOMAIN data}
    IN  [columns |-> columns,
         rows |-> [i \in DOMAIN data |->
                     [c \in columns |-> IF c \in DOMAIN data[i] THEN data[i][c] ELSE NaN]]]

\* df[col].dtype in ['int64', 'float64', 'int32', 'float32']: a column of
\* numbers, NaN among them or not; a column holding a string has dtype object
IsNumeric(df, col) == \A i \in DOMAIN df.rows : df.rows[i][col].k # "str"

\* df["testname"].duplicated().any(), NaN being a duplicate of NaN
DuplicatedAny(df) ==
    \E i, j \in DOMAIN df.rows : i < j /\ df.rows[i].testname = df.rows[j].testname

\* The test names of the data in the order in which groupby sorts them
TestNames == <<"t1", "t2">>

\* The rows of the frame whose testname is the cell key, in row order
RowsOf(df, key) == SelectSeq(df.rows, LAMBDA r : r.testname = key)

\* agg 'min', in the place of max
AggMin(group, col) ==
    LET numbers == {group[i][col].n : i \in {i \in DOMAIN group : group[i][col].k = "num"}}
    IN  IF numbers = {} THEN NaN
        ELSE NumCell(CHOOSE n \in numbers : \A m \in numbers : n <= m)

\* agg 'max': the greatest number of the column in the group, NaN skipped
AggMax(group, col) ==
    LET numbers == {group[i][col].n : i \in {i \in DOMAIN group : group[i][col].k = "num"}}
    IN  IF numbers = {} THEN NaN
        ELSE NumCell(CHOOSE n \in numbers : \A m \in numbers : m <= n)

\* agg 'first': the first cell of the column in the group that is not NaN
AggFirst(group, col) ==
    LET present == {i \in DOMAIN group : group[i][col] # NaN}
    IN  IF present = {} THEN NaN
        ELSE group[CHOOSE i \in present : \A j \in present : i <= j][col]

\* df.groupby("testname", as_index=False).agg(agg_dict): one row for each
\* test name, in sorted order, 'max' on the numeric columns and 'first' on
\* the others; the rows whose testname is NaN are in no group
GroupBy(df) ==
    LET keys == SelectSeq(TestNames, LAMBDA t : RowsOf(df, StrCell(t)) # <<>>)
    IN  [columns |-> df.columns,
         rows |-> [k \in DOMAIN keys |->
                     [c \in df.columns |->
                        IF c = "testname" THEN StrCell(keys[k])
                        ELSE IF IsNumeric(df, c)
                        THEN AggMax(RowsOf(df, StrCell(keys[k])), c)
                        ELSE AggFirst(RowsOf(df, StrCell(keys[k])), c)]]]

\* df.drop_duplicates(subset=["testname"], keep='first')
DropDuplicates(df) ==
    LET kept == {i \in DOMAIN df.rows :
                    \A j \in DOMAIN df.rows : j < i => df.rows[j].testname # df.rows[i].testname}
        order == [k \in 1..Cardinality(kept) |->
                    CHOOSE i \in kept : Cardinality({j \in kept : j < i}) = k - 1]
    IN  [columns |-> df.columns, rows |-> [k \in DOMAIN order |-> df.rows[order[k]]]]

\* counts = original_df["testname"].value_counts().to_dict()
\* df["occurrence_count"] = df["testname"].map(counts): NaN is not counted
WithOccurrenceCount(df, original_df) ==
    [columns |-> df.columns \cup {"occurrence_count"},
     rows |-> [i \in DOMAIN df.rows |->
                 [c \in df.columns \cup {"occurrence_count"} |->
                    IF c # "occurrence_count" THEN df.rows[i][c]
                    ELSE IF df.rows[i].testname = NaN THEN NaN
                    ELSE NumCell(Len(RowsOf(original_df, df.rows[i].testname)))]]]

\* The deduplication without its two conditions: every table is grouped
\* and counted
Deduplicate_Always(data) ==
    LET original_df == DataFrame(data)
    IN  IF "testname" \in original_df.columns
        THEN WithOccurrenceCount(GroupBy(original_df), original_df)
        ELSE original_df

\* The deduplication by testname, app.py 488-524 and 402-432
Deduplicate(data) ==
    LET original_df == DataFrame(data)
        df == IF original_df.columns = {"testname"}
              THEN DropDuplicates(original_df)
              ELSE GroupBy(original_df)
    IN  IF "testname" \in original_df.columns /\ DuplicatedAny(original_df)
        THEN IF Len(df.rows) < Len(original_df.rows)
             THEN WithOccurrenceCount(df, original_df)
             ELSE df
        ELSE original_df

\* The message under the table
UniqueInfo(deduplicated_count, original_count) ==
    [kind |-> "unique", unique |-> deduplicated_count, total |-> original_count]

TotalInfo(original_count) == [kind |-> "total", total |-> original_count]

\* The table of a regular query result, app.py 486-553
QueryResultsTable(data) ==
    LET df == Deduplicate(data)
    IN  [view |-> "query",
         rows |-> df.rows,
         info |-> IF Len(data) > Len(df.rows)
                  THEN UniqueInfo(Len(df.rows), Len(data))
                  ELSE TotalInfo(Len(data))]

\* The table of a summary result, app.py 400-457; row_count is the number
\* of rows of the data
SummaryTable(data, is_build_comparison) ==
    LET df == IF is_build_comparison THEN DataFrame(data) ELSE Deduplicate(data)
    IN  [view |-> IF is_build_comparison THEN "comparison" ELSE "summary",
         rows |-> df.rows,
         info |-> IF ~is_build_comparison /\ Len(df.rows) < Len(data)
                  THEN UniqueInfo(Len(df.rows), Len(data))
                  ELSE TotalInfo(Len(data))]

MaxRows == 3

Durations == {3, 5}

\* The rows of a result: with or without a testname, a status and a duration
ResultRows ==
    {[testname |-> StrCell(TestNames[k])] : k \in DOMAIN TestNames}
    \cup {[status |-> StrCell(st)] : st \in {"PASS", "FAIL"}}
    \cup {[testname |-> StrCell(TestNames[k]), status |-> StrCell(st)] :
            k \in DOMAIN TestNames, st \in {"PASS", "FAIL"}}
    \cup {[testname |-> StrCell(TestNames[k]), status |-> StrCell(st), duration |-> NumCell(d)] :
            k \in DOMAIN TestNames, st \in {"PASS", "FAIL"}, d \in Durations}
    \cup {[status |-> StrCell(st), duration |-> NumCell(d)] :
            st \in {"PASS", "FAIL"}, d \in Durations}

ResultData == UNION {[1..n -> ResultRows] : n \in 1..MaxRows}

\* The table of a regular query result is displayed
DisplayQueryResults ==
    /\ display = NoResult
    /\ \E data \in ResultData :
        /\ result_rows' = data
        /\ display' = QueryResultsTable(data)
    /\ UNCHANGED <<serviceVars, classifierVars, categorizerVars, summaryVars, storeVars>>

\* The table of a summary result is displayed
DisplaySummaryTable ==
    /\ display = NoResult
    /\ \E data \in ResultData, is_build_comparison \in BOOLEAN :
        /\ result_rows' = data
        /\ display' = SummaryTable(data, is_build_comparison)
    /\ UNCHANGED <<serviceVars, classifierVars, categorizerVars, summaryVars, storeVars>>

NextTable == DisplayQueryResults \/ DisplaySummaryTable

SpecTable == Init /\ [][NextTable]_vars

(***************************************************************************)
(* Properties of the deduplication                                         *)
(***************************************************************************)
\* A table was displayed after the deduplication
Deduplicated == display # NoResult /\ display.view # "comparison"

\* The input rows that have the test name t, in input order
InputRowsOf(t) ==
    {i \in DOMAIN result_rows :
        "testname" \in DOMAIN result_rows[i] /\ result_rows[i].testname = StrCell(t)}

InputNames == {t \in {TestNames[k] : k \in DOMAIN TestNames} : InputRowsOf(t) # {}}

\* The displayed rows that have the test name t
DisplayedRowsOf(t) ==
    {i \in DOMAIN display.rows :
        "testname" \in DOMAIN display.rows[i] /\ display.rows[i].testname = StrCell(t)}

\* The input rows of t that have a value for the field
RowsWithField(t, field) == {i \in InputRowsOf(t) : field \in DOMAIN result_rows[i]}

\* Is cell the greatest value of the numeric field over the input rows of t
IsMaximum(cell, t, field) ==
    IF RowsWithField(t, field) = {}
    THEN cell = NaN
    ELSE /\ \E i \in RowsWithField(t, field) : cell = result_rows[i][field]
         /\ \A i \in RowsWithField(t, field) : result_rows[i][field].n <= cell.n

\* Is cell the value of the field in the first input row of t that has one
IsFirstSeen(cell, t, field) ==
    IF RowsWithField(t, field) = {}
    THEN cell = NaN
    ELSE \E i \in RowsWithField(t, field) :
            /\ cell = result_rows[i][field]
            /\ \A j \in RowsWithField(t, field) : i <= j

\* C17: the displayed table has exactly one row for each test name of the
\* input; for a test name that several input rows have, the numeric field
\* (duration) of that row is the maximum over those rows, the non-numeric
\* field (status) the first value seen in input order, and occurrence_count
\* the number of those rows.
C17_DedupByTestname ==
    Deduplicated =>
        \A t \in InputNames :
            /\ Cardinality(DisplayedRowsOf(t)) = 1
            /\ Cardinality(InputRowsOf(t)) > 1 =>
                \A i \in DisplayedRowsOf(t) :
                    /\ "duration" \in DOMAIN display.rows[i]
                          => IsMaximum(display.rows[i].duration, t, "duration")
                    /\ "status" \in DOMAIN display.rows[i]
                          => IsFirstSeen(display.rows[i].status, t, "status")
                    /\ "occurrence_count" \in DOMAIN display.rows[i]
                    /\ display.rows[i].occurrence_count = NumCell(Cardinality(InputRowsOf(t)))

\* The rows [t1 FAIL], [t1 FAIL, duration 5], [t2 PASS] give two rows, t1
\* with occurrence_count 2 and duration 5
C17_Witness ==
    /\ result_rows = << [testname |-> StrCell("t1"), status |-> StrCell("FAIL")],
                        [testname |-> StrCell("t1"), status |-> StrCell("FAIL"),
                         duration |-> NumCell(5)],
                        [testname |-> StrCell("t2"), status |-> StrCell("PASS")] >>
    /\ display # NoResult
    /\ display.view = "query"
    /\ Len(display.rows) = 2
    /\ display.rows[1].testname = StrCell("t1")
    /\ display.rows[1].occurrence_count = NumCell(2)
    /\ display.rows[1].duration = NumCell(5)

\* C18: the deduplication applied to the rows it produced (one row for each
\* test name, occurrence_count present) changes nothing: same rows, same
\* field values, same occurrence_count.
C18_DedupIdempotent ==
    Deduplicated => Deduplicate(display.rows).rows = display.rows

C18_Witness ==
    /\ result_rows = << [testname |-> StrCell("t1"), status |-> StrCell("PASS")],
                        [testname |-> StrCell("t1"), status |-> StrCell("FAIL")] >>
    /\ display # NoResult
    /\ display.view = "query"
    /\ display.rows = << [testname |-> StrCell("t1"), status |-> StrCell("PASS"),
                          occurrence_count |-> NumCell(2)] >>
    /\ Deduplicate(display.rows).rows = display.rows

\* The number of input rows that have no testname
SkippedCount == Cardinality({i \in DOMAIN result_rows : "testname" \notin DOMAIN result_rows[i]})

\* C19: the rows without a testname are skipped one by one: none of them is
\* displayed as a row of the table, the number of skipped rows is reported
\* under the table, and the rows with a testname are aggregated as usual.
C19_SkippedReported ==
    (Deduplicated /\ SkippedCount > 0) =>
        /\ \A i \in DOMAIN display.rows :
              "testname" \in DOMAIN display.rows[i] /\ display.rows[i].testname # NaN
        /\ "skipped" \in DOMAIN display.info
        /\ display.info.skipped = SkippedCount
        /\ \A t \in InputNames : Cardinality(DisplayedRowsOf(t)) = 1

(***************************************************************************)
(* The failure categorizer, FailureCategoryAnalyzer of summary_service.py. *)
(* The argument is a cell: a string, or a value that is not a string       *)
(* (None, or the NaN of a table without failure stack).                    *)
(***************************************************************************)
FAILURE_PATTERNS ==
    << [category |-> "toast",
        keywords |-> <<".toast", "toast", "Toast">>],
       [category |-> "visibility",
        keywords |-> <<"By.cssSelector", "waiting for visibility", "visibility",
                       "element not visible", "ElementNotVisibleException">>],
       [category |-> "timeout",
        keywords |-> <<"timeout", "TimeoutException", "waiting", "timed out">>],
       [category |-> "element_not_found",
        keywords |-> <<"NoSuchElementException", "element not found", "could not find">>],
       [category |-> "assertion",
        keywords |-> <<"AssertionError", "assert", "expected", "actual">>],
       [category |-> "network",
        keywords |-> <<"network", "connection", "HttpException", "500", "404">>] >>

NoneCell == [k |-> "none"]

\* `keyword in failure_stack_lower`, the keyword as it is written
KeywordMatches_CaseSensitive(keyword, failure_stack_lower) ==
    Contains(failure_stack_lower, keyword)

\* `keyword.lower() in failure_stack_lower`
KeywordMatches(keyword, failure_stack_lower) ==
    Contains(failure_stack_lower, StrLower(keyword))

\* The loop over the keywords of one category, up to the first that matches
RECURSIVE AnyKeyword(_, _, _)
AnyKeyword(keywords, failure_stack_lower, k) ==
    IF k > Len(keywords) THEN FALSE
    ELSE IF KeywordMatches(keywords[k], failure_stack_lower) THEN TRUE
    ELSE AnyKeyword(keywords, failure_stack_lower, k + 1)

\* The loop over the categories, in the order of the table
RECURSIVE CollectCategories(_, _, _)
CollectCategories(failure_stack_lower, k, found) ==
    IF k > Len(FAILURE_PATTERNS) THEN found
    ELSE CollectCategories(failure_stack_lower, k + 1,
            IF AnyKeyword(FAILURE_PATTERNS[k].keywords, failure_stack_lower, 1)
            THEN Append(found, FAILURE_PATTERNS[k].category)
            ELSE found)

categorize_failure(failure_stack) ==
    IF failure_stack.k # "str" \/ failure_stack.s = ""
    THEN <<"unknown">>
    ELSE LET found == CollectCategories(StrLower(failure_stack.s), 1, <<>>)
         IN  IF found # <<>> THEN found ELSE <<"unknown">>

\* Pieces of failure stacks
StackPieces ==
    {"", " ", "Toast", "div.toast-message", "By.cssSelector", "waiting for visibility",
     "Element Not Visible", "TimeoutException", "timed out", "WAITING",
     "NoSuchElementException", "Could not find element", "AssertionError",
     "Expected true", "actual", "HttpException", "HTTP 500", "connection refused",
     "NullPointerException", "line 404", "at Test.run"}

FailureStacks ==
    {StrCell(first \o second) : first \in StackPieces, second \in StackPieces}
    \cup {StrCell(first \o "\n" \o second) : first \in StackPieces, second \in StackPieces}
    \cup {NoneCell, NaN}

\* One call of the categorizer
Categorize ==
    /\ categories = <<>>
    /\ \E failure_stack \in FailureStacks :
        /\ failure_text' = failure_stack
        /\ categories' = categorize_failure(failure_stack)
    /\ UNCHANGED <<serviceVars, classifierVars, aggregationVars, summaryVars, storeVars>>

SpecCategorizer == Init /\ [][Categorize]_vars

\* The categories of the table of which a keyword occurs in str, the letter
\* case set aside
MatchingCategories(str) ==
    {FAILURE_PATTERNS[c].category : c \in
        {c \in DOMAIN FAILURE_PATTERNS :
            \E k \in DOMAIN FAILURE_PATTERNS[c].keywords :
                Contains(StrLower(str), StrLower(FAILURE_PATTERNS[c].keywords[k]))}}

ResultSet == {categories[i] : i \in DOMAIN categories}

\* C20: a category is in the result of categorize_failure exactly when one
\* of its keywords occurs in the text, the letter case set aside; the result
\* is ["unknown"] exactly when the text is empty, is not a string or matches
\* no category; the result is never empty, holds no category twice and
\* never holds "unknown" beside another category.
C20_Categories ==
    categories # <<>> =>
        LET matching == IF failure_text.k = "str"
                        THEN MatchingCategories(failure_text.s)
                        ELSE {}
        IN  /\ Len(categories) = Cardinality(ResultSet)
            /\ \A c \in matching : c \in ResultSet
            /\ \A c \in ResultSet : c \in matching \/ (c = "unknown" /\ matching = {})
            /\ (categories = <<"unknown">>) <=> (matching = {})

\* A text with keywords of several categories
C20_Witness ==
    /\ failure_text = StrCell("TimeoutException" \o "\n" \o "waiting for visibility")
    /\ categories = <<"visibility", "timeout">>

(***************************************************************************)
(* Summaries: SummaryService                                               *)
(*                                                                         *)
(* The flaky-script summaries hand a Flux pipeline to the store.  The      *)
(* pipeline is part of the source, so it is modelled stage by stage on     *)
(* the points the store holds.  A Flux stage works on each table of its    *)
(* input: after group(columns: ["testname"]) and reduce there is one table *)
(* of one row per testname, which filter, map, sort and limit then see.    *)
(***************************************************************************)
MaxStoreRows == 3

Statuses == {"PASS", "FAIL", "SKIP"}

TestNameSet == {TestNames[k] : k \in DOMAIN TestNames}

\* The duration points of the last seven days, in the order of their time
DurationPoints ==
    UNION {[1..n -> [testname : TestNameSet, status : Statuses]] : n \in 0..MaxStoreRows}

\* The failure_stack points of the last seven days
FailurePoints ==
    LET points == [testname : TestNameSet \cup {""},
                   failure_stack : {"", "Toast timed out", "TimeoutException"}]
    IN  UNION {[1..n -> points] : n \in 0..2}

\* An outcome of the store with the tables of a pipeline
RowsOutcome(tables) == [kind |-> "rows", tables |-> tables, msg |-> <<>>]

\* The outcomes of the store that are failures
FailedOutcomes == {out \in StoreOutcomes : out.kind # "rows"}

\* execute_flux_query(query, execution_number): the execution number given,
\* or config.DEFAULT_EXECUTION_NUMBER when it is None
NumberOrDefault(en) == IF en = NoneCell THEN DEFAULT_EXECUTION_NUMBER ELSE en.s

execute_flux_query(query, en, out) == ExecuteFluxQuery(query, NumberOrDefault(en), out)

\* float(v: a) / float(v: b), kept as the fraction
FloatDiv(a, b) == [num |-> a, den |-> b]

\* reduce(identity: {testname: "", pass_count: 0, fail_count: 0, total: 0}, fn: ...)
\* on the table of one testname
reduce_counts(points, name) ==
    LET Count(Test(_)) ==
            Cardinality({i \in DOMAIN points :
                            points[i].testname = name /\ Test(points[i])})
    IN  [testname |-> name,
         pass_count |-> Count(LAMBDA r : r.status = "PASS"),
         fail_count |-> Count(LAMBDA r : r.status = "FAIL"),
         total |-> Count(LAMBDA r : TRUE)]

\* filter(fn: (r) => r.fail_count > 0), the PASS count left out
flaky_filter_FailOnly(r) == r.fail_count > 0

\* filter(fn: (r) => r.pass_count > 0 and r.fail_count > 0)
flaky_filter(r) == r.pass_count > 0 /\ r.fail_count > 0

\* map(fn: (r) => ({testname: ..., flakiness_score: float(v: r.fail_count) / float(v: r.total)}))
flaky_map(r) ==
    [testname |-> r.testname, pass_count |-> r.pass_count, fail_count |-> r.fail_count,
     total |-> r.total, flakiness_score |-> FloatDiv(r.fail_count, r.total)]

\* sort(columns: ["flakiness_score"], desc: true) on one table: the rows by
\* decreasing score, rows of equal score in their order
RECURSIVE flux_sort_desc(_)
flux_sort_desc(table) ==
    IF table = <<>> THEN <<>>
    ELSE LET Above(a, b) == a.num * b.den > b.num * a.den
             k == CHOOSE i \in DOMAIN table :
                      /\ \A j \in DOMAIN table :
                            ~Above(table[j].flakiness_score, table[i].flakiness_score)
                      /\ \A j \in 1..(i - 1) :
                            Above(table[i].flakiness_score, table[j].flakiness_score)
         IN  <<table[k]>>
             \o flux_sort_desc(SubSeq(table, 1, k - 1) \o SubSeq(table, k + 1, Len(table)))

\* limit(n: n) on one table: its first n rows
flux_limit(table, n) == SubSeq(table, 1, IF n < Len(table) THEN n ELSE Len(table))

\* status_query: the tables the store yields, one per testname that has
\* points, with the columns the store adds to every record
status_query(points) ==
    LET groups == SelectSeq(TestNames,
                            LAMBDA name : \E i \in DOMAIN points : points[i].testname = name)
        Columns(k, r) == ("result" :> "_result") @@ ("table" :> k) @@ r
    IN  [k \in DOMAIN groups |->
            LET reduced == <<reduce_counts(points, groups[k])>>
                filtered == SelectSeq(reduced, flaky_filter)
                mapped == [i \in DOMAIN filtered |-> flaky_map(filtered[i])]
                sorted == flux_sort_desc(mapped)
            IN  [i \in DOMAIN sorted |-> Columns(k - 1, sorted[i])]]

\* query of generate_top_flaky_scripts: status_query |> limit(n: limit)
top_query(points, limit) ==
    LET tables == status_query(points)
    IN  [k \in DOMAIN tables |-> flux_limit(tables[k], limit)]

\* failure_query of the flaky summary: one table, the testname and the text of every point
flaky_failure_query(points) ==
    << [i \in DOMAIN points |->
           ("result" :> "_result") @@ ("table" :> 0) @@
           ("testname" :> points[i].testname) @@
           ("failure_stack" :> points[i].failure_stack)] >>

\* failure_categories.update(categories): a Counter, its keys in the order
\* of their first count
RECURSIVE CounterUpdate(_, _)
CounterUpdate(counter, keys) ==
    IF keys = <<>> THEN counter
    ELSE LET key == Head(keys)
             counted ==
                 IF \E i \in DOMAIN counter : counter[i].key = key
                 THEN [i \in DOMAIN counter |->
                          IF counter[i].key = key
                          THEN [counter[i] EXCEPT !.count = @ + 1]
                          ELSE counter[i]]
                 ELSE Append(counter, [key |-> key, count |-> 1])
         IN  CounterUpdate(counted, Tail(keys))

\* for stack in failure_stacks: if stack: failure_categories.update(...)
RECURSIVE CountCategories(_, _)
CountCategories(failure_stacks, counter) ==
    IF failure_stacks = <<>> THEN counter
    ELSE CountCategories(Tail(failure_stacks),
            IF Head(failure_stacks) # ""
            THEN CounterUpdate(counter, categorize_failure(StrCell(Head(failure_stacks))))
            ELSE counter)

\* failure_categories.most_common(1)[0][0], "unknown" without a category
most_common_reason(counter) ==
    IF counter = <<>> THEN "unknown"
    ELSE LET k == CHOOSE i \in DOMAIN counter :
                      /\ \A j \in DOMAIN counter : counter[j].count <= counter[i].count
                      /\ \A j \in 1..(i - 1) : counter[j].count < counter[i].count
         IN  counter[k].key

\* generate_flaky_scripts_summary(), the store giving status_out to the first
\* query and failure_out to the second; the text of the summary is left out
generate_flaky_scripts_summary(status_out, failure_out) ==
    LET status_result ==
            execute_flux_query(<<"status_query">>, NoneCell, status_out)
        failure_result ==
            execute_flux_query(<<"failure_query">>, NoneCell, failure_out)
        failure_records ==
            IF failure_result.success
            THEN SelectSeq(failure_result.data,
                           LAMBDA r : r["testname"] # "" /\ r["failure_stack"] # "")
            ELSE <<>>
        StacksOf(name) ==
            LET own == SelectSeq(failure_records, LAMBDA r : r["testname"] = name)
            IN  [i \in DOMAIN own |-> own[i]["failure_stack"]]
        Script(record) ==
            LET failure_categories == CountCategories(StacksOf(record["testname"]), <<>>)
            IN  [testname |-> record["testname"],
                 fail_count |-> record["fail_count"],
                 pass_count |-> record["pass_count"],
                 total |-> record["total"],
                 flakiness_score |-> record["flakiness_score"],
                 failure_reason |-> most_common_reason(failure_categories),
                 failure_categories |-> failure_categories]
    IN  IF ~status_result.success
        THEN [success |-> FALSE, error |-> status_result.error, summary |-> NoneText]
        ELSE LET flaky_scripts ==
                     [i \in DOMAIN status_result.data |-> Script(status_result.data[i])]
             IN  [success |-> TRUE, total_flaky |-> Len(flaky_scripts),
                  flaky_scripts |-> flaky_scripts]

\* generate_top_flaky_scripts(limit), the store giving out to the query
generate_top_flaky_scripts(limit, out) ==
    LET top_result == execute_flux_query(<<"top_query">>, NoneCell, out)
    IN  IF ~top_result.success
        THEN [success |-> FALSE, error |-> top_result.error, data |-> NoneData]
        ELSE [success |-> TRUE, scripts |-> top_result.data,
              total |-> Len(top_result.data), limit |-> limit]

\* One call of generate_flaky_scripts_summary
FlakySummary ==
    /\ summary_call = NoResult
    /\ \E points \in DurationPoints, failures \in FailurePoints :
       \E status_out \in FailedOutcomes \cup {RowsOutcome(status_query(points))},
          failure_out \in FailedOutcomes \cup {RowsOutcome(flaky_failure_query(failures))} :
        /\ summary_call' = [fn |-> "generate_flaky_scripts_summary", points |-> points,
                            failures |-> failures, stored |-> status_out.kind = "rows"]
        /\ summary_result' = generate_flaky_scripts_summary(status_out, failure_out)
    /\ UNCHANGED <<serviceVars, classifierVars, aggregationVars, categorizerVars, storeVars>>

\* One call of generate_top_flaky_scripts, for a limit of one row or more
TopFlaky ==
    /\ summary_call = NoResult
    /\ \E points \in DurationPoints, limit \in 1..MaxLimit :
       \E out \in FailedOutcomes \cup {RowsOutcome(top_query(points, limit))} :
        /\ summary_call' = [fn |-> "generate_top_flaky_scripts", points |-> points,
                            limit |-> limit, stored |-> out.kind = "rows"]
        /\ summary_result' = generate_top_flaky_scripts(limit, out)
    /\ UNCHANGED <<serviceVars, classifierVars, aggregationVars, categorizerVars, storeVars>>

NextFlaky == FlakySummary \/ TopFlaky

SpecFlaky == Init /\ [][NextFlaky]_vars

\* The scripts a call reported: flaky_scripts of the summary, scripts of the top
ReportedScripts ==
    IF summary_call.fn = "generate_flaky_scripts_summary"
    THEN summary_result.flaky_scripts
    ELSE summary_result.scripts

\* A call on the flaky scripts has returned the scripts it found
FlakyReported ==
    /\ summary_call # NoResult
    /\ summary_call.fn \in {"generate_flaky_scripts_summary", "generate_top_flaky_scripts"}
    /\ summary_result.success

\* The number of points of a testname with one of the statuses
PointCount(name, statuses) ==
    Cardinality({i \in DOMAIN summary_call.points :
                    /\ summary_call.points[i].testname = name
                    /\ summary_call.points[i].status \in statuses})

MaxExecution == 3

\* The characters of the identifiers, in the order of their code points
CodePoints == "0123456789" \o UpperLetters \o "_" \o LowerLetters

\* a > b of two Python strings
RECURSIVE StrGreater(_, _)
StrGreater(a, b) ==
    LET Rank(c) == CHOOSE i \in 1..Len(CodePoints) : CharAt(CodePoints, i) = c
    IN  IF a = "" THEN FALSE
        ELSE IF b = "" THEN TRUE
        ELSE IF CharAt(a, 1) = CharAt(b, 1)
        THEN StrGreater(SubSeq(a, 2, Len(a)), SubSeq(b, 2, Len(b)))
        ELSE Rank(CharAt(a, 1)) > Rank(CharAt(b, 1))

\* Does int(str) return: str is a run of digits
IntParses(str) == str # "" /\ RunLength(str, 1, "d") = Len(str)

\* Ensure execution1 < execution2: by int() when both are numeric, by the
\* strings when int() raises ValueError
ensure_order(execution1, execution2) ==
    IF IntParses(execution1) /\ IntParses(execution2)
    THEN IF StrToInt(execution1) > StrToInt(execution2)
         THEN <<execution2, execution1>>
         ELSE <<execution1, execution2>>
    ELSE IF StrGreater(execution1, execution2)
         THEN <<execution2, execution1>>
         ELSE <<execution1, execution2>>

\* The query of the execution numbers: one table per execution number the
\* store knows, by decreasing execution number
RECURSIVE executions_query(_)
executions_query(known) ==
    IF known = {} THEN <<>>
    ELSE LET top == CHOOSE e \in known : \A other \in known : ~StrGreater(other, e)
         IN  << << ("result" :> "_result") @@ ("table" :> "0") @@
                   ("execution_number" :> top) @@ ("_value" :> top) >> >>
             \o executions_query(known \ {top})

\* executions: the execution number of every record, stripped, without the
\* empty ones and the repeated ones
RECURSIVE ExtractExecutions(_, _)
ExtractExecutions(data, executions) ==
    IF data = <<>> THEN executions
    ELSE LET record == Head(data)
             Get(key) == IF key \in DOMAIN record THEN record[key] ELSE ""
             exec_num == IF Get("execution_number") # "" THEN Get("execution_number")
                         ELSE IF Get("_value") # "" THEN Get("_value")
                         ELSE Get("executionNumber")
             exec_str == StrStrip(exec_num)
         IN  ExtractExecutions(Tail(data),
                IF exec_str # "" /\ \A i \in DOMAIN executions : executions[i] # exec_str
                THEN Append(executions, exec_str)
                ELSE executions)

\* A build: the status of each testname, Absent for a testname without a row
Absent == "-"

Builds == [TestNameSet -> Statuses \cup {Absent}]

EmptyBuild == [name \in TestNameSet |-> Absent]

\* filter(fn: (r) => r.previous_status != r.current_status), every change
changed_filter_AnyChange(r) == r.previous_status # r.current_status

\* filter(fn: (r) => r.previous_status == "PASS" and
\*                   (r.current_status == "FAIL" or r.current_status == "SKIP"))
changed_filter(r) ==
    r.previous_status = "PASS" /\ (r.current_status = "FAIL" \/ r.current_status = "SKIP")

\* The comparison query: join(tables: {b1: build1, b2: build2}, on: ["testname"])
\* |> filter |> keep |> group(), one table; failure_stack is the text the
\* FAIL rows of build2 carry
comparison_query(build1, build2, failure_stack) ==
    LET joined == SelectSeq(TestNames,
                            LAMBDA name : build1[name] # Absent /\ build2[name] # Absent)
        rows == [i \in DOMAIN joined |->
                    [testname |-> joined[i],
                     previous_status |-> build1[joined[i]],
                     current_status |-> build2[joined[i]],
                     current_failure_stack |->
                        IF build2[joined[i]] = "FAIL" THEN failure_stack ELSE ""]]
        kept == SelectSeq(rows, changed_filter)
    IN  << [i \in DOMAIN kept |-> ("result" :> "_result") @@ ("table" :> 0) @@ kept[i]] >>

\* The keys of status_changes
ChangeKeys == {"PASS->FAIL", "PASS->SKIP", "FAIL->PASS", "SKIP->PASS",
               "FAIL->SKIP", "SKIP->FAIL"}

\* status_changes after the loop over changed_tests
status_changes(changed_tests) ==
    [key \in ChangeKeys |->
        LET tests == SelectSeq(changed_tests,
                LAMBDA test : test["previous_status"] \o "->" \o test["current_status"] = key)
        IN  [i \in DOMAIN tests |-> tests[i]["testname"]]]

\* failure_categories after the loop over changed_tests
failure_categories(changed_tests) ==
    LET Categories(test) ==
            IF test["current_status"] = "FAIL" /\ test["current_failure_stack"] # ""
            THEN categorize_failure(StrCell(test["current_failure_stack"]))
            ELSE <<>>
        Has(test, category) ==
            \E i \in DOMAIN Categories(test) : Categories(test)[i] = category
        found == {FAILURE_PATTERNS[k].category : k \in DOMAIN FAILURE_PATTERNS}
                 \cup {"unknown"}
    IN  [category \in {c \in found : \E i \in DOMAIN changed_tests :
                                        Has(changed_tests[i], c)} |->
            LET tests == SelectSeq(changed_tests, LAMBDA test : Has(test, category))
            IN  [i \in DOMAIN tests |-> tests[i]["testname"]]]

\* What a call leaves when an exception escapes it
Raises(exception) == [raised |-> exception]

\* The failure the comparison returns
ComparisonFailed(error) == [success |-> FALSE, error |-> error, summary |-> NoneText]

\* The two executions compared once the missing ones are chosen from the
\* list executions
selected_executions(execution1, execution2, executions) ==
    LET second == IF execution2 = NoneCell THEN executions[1] ELSE execution2.s
        first == IF execution1 = NoneCell THEN executions[Len(executions)] ELSE execution1.s
    IN  ensure_order(first, second)

\* generate_build_comparison_summary(execution1, execution2).  Of the store:
\* executions is its outcome for the query of the execution numbers, builds
\* the build it holds for each execution, failure_stack the text of its FAIL
\* rows and fault its outcome for the comparison query when that is a failure.
\* The local variable query is assigned only when an identifier is None, and
\* the store is called with it in every case.  The text of the summary is
\* left out.
generate_build_comparison_summary(execution1, execution2, store) ==
    LET query_assigned == execution1 = NoneCell \/ execution2 = NoneCell
        listing == execute_flux_query(<<"executions_query">>, NoneCell, store.executions)
        executions == ExtractExecutions(listing.data, <<>>)
        pair == selected_executions(execution1, execution2, executions)
        comparison_out ==
            IF store.fault.kind = "rows"
            THEN RowsOutcome(comparison_query(store.builds[pair[1]], store.builds[pair[2]],
                                              store.failure_stack))
            ELSE store.fault
        compared == execute_flux_query(<<"comparison_query", pair[1], pair[2]>>, NoneCell,
                                       comparison_out)
    IN  IF ~query_assigned
        THEN Raises("UnboundLocalError")
        ELSE IF ~listing.success
        THEN ComparisonFailed(<<"Failed to query execution numbers: ">> \o listing.error)
        ELSE IF listing.data = <<>>
        THEN ComparisonFailed(<<"No execution data found in database">>)
        ELSE IF executions = <<>>
        THEN ComparisonFailed(<<"No execution numbers found. Sample data: ">>)
        ELSE IF ~compared.success
        THEN ComparisonFailed(compared.error)
        ELSE [success |-> TRUE,
              execution1 |-> pair[1],
              execution2 |-> pair[2],
              total_changed |-> Len(compared.data),
              changed_tests |-> compared.data,
              status_changes |-> status_changes(compared.data),
              failure_categories |-> failure_categories(compared.data)]

\* The execution numbers the store knows and the ones a caller names
KnownExecutions == {ToString(n) : n \in 1..MaxExecution}

NamedExecutions == KnownExecutions \cup {"10", "12", "rc"}

ExecutionArguments == {NoneCell} \cup {StrCell(e) : e \in NamedExecutions}

\* The build the store holds for an execution: nothing for one it does not
\* know, the build current for the newest one, the build previous for the others
StoredBuild(known, previous, current, e) ==
    IF e \notin known THEN EmptyBuild
    ELSE IF \A other \in known : StrToInt(other) <= StrToInt(e) THEN current
    ELSE previous

\* An outcome of the store that is no failure, its tables left to the query
Answers == RowsOutcome(<<>>)

\* The call of generate_build_comparison_summary a state of summary_call stands for
ComparisonOf(call) ==
    generate_build_comparison_summary(call.execution1, call.execution2,
        [executions |-> IF call.executions_fault = Answers
                        THEN RowsOutcome(executions_query(call.known))
                        ELSE call.executions_fault,
         builds |-> [e \in NamedExecutions |->
                        StoredBuild(call.known, call.previous, call.current, e)],
         failure_stack |-> call.failure_stack,
         fault |-> call.fault])

\* One call of generate_build_comparison_summary: with both identifiers or
\* with none, as app.py makes it, or with one identifier.  What the call
\* never reads is held fixed, so that a call is one state.
BuildComparison ==
    /\ summary_call = NoResult
    /\ \E execution1, execution2 \in ExecutionArguments,
          known \in SUBSET KnownExecutions,
          previous, current \in Builds,
          failure_stack \in {"", "Toast timed out"},
          executions_fault, fault \in FailedOutcomes \cup {Answers} :
        LET both == execution1 # NoneCell /\ execution2 # NoneCell
            unlisted == both \/ executions_fault # Answers \/ known = {}
            call == [fn |-> "generate_build_comparison_summary",
                     execution1 |-> execution1, execution2 |-> execution2,
                     known |-> known, previous |-> previous, current |-> current,
                     failure_stack |-> failure_stack,
                     executions_fault |-> executions_fault, fault |-> fault]
        IN  /\ both => known = {} /\ executions_fault = Answers
            /\ unlisted => fault = Answers
            /\ (unlisted \/ fault # Answers) =>
                    previous = EmptyBuild /\ current = EmptyBuild
            /\ (\A name \in TestNameSet : current[name] # "FAIL") => failure_stack = ""
            /\ summary_call' = call
            /\ summary_result' = ComparisonOf(call)
    /\ UNCHANGED <<serviceVars, classifierVars, aggregationVars, categorizerVars, storeVars>>

SpecComparison == Init /\ [][BuildComparison]_vars

\* A call of generate_build_comparison_summary is over
ComparisonCalled ==
    summary_call # NoResult /\ summary_call.fn = "generate_build_comparison_summary"

\* The call returned a dictionary, whatever its success flag
ComparisonReturned == ComparisonCalled /\ "success" \in DOMAIN summary_result

\* The call returned the comparison of two builds
Compared == ComparisonReturned /\ summary_result.success

\* The build the store holds for execution e in the call that is over
BuildOfCall(e) ==
    StoredBuild(summary_call.known, summary_call.previous, summary_call.current, e)

\* The status of testname name in the two builds the result names
PreviousStatus(name) == BuildOfCall(summary_result.execution1)[name]

CurrentStatus(name) == BuildOfCall(summary_result.execution2)[name]

\* Is a before b or equal to it: by number when both are numbers, by the
\* strings otherwise
InOrder(a, b) ==
    IF IntParses(a) /\ IntParses(b)
    THEN StrToInt(a) <= StrToInt(b)
    ELSE ~StrGreater(a, b)

\* The call that is over, its two arguments exchanged
ExchangedCall ==
    [summary_call EXCEPT !.execution1 = summary_call.execution2,
                         !.execution2 = summary_call.execution1]

\* C22: a comparison returns what the call with the two arguments exchanged
\* returns; named with both identifiers it returns a result, and the result
\* of a comparison done has the two identifiers with the smaller one (by
\* number, by the strings when one is not a number) as execution1
C22_OrderNormalization ==
    ComparisonCalled =>
        /\ summary_result = ComparisonOf(ExchangedCall)
        /\ (summary_call.execution1 # NoneCell /\ summary_call.execution2 # NoneCell) =>
                /\ ComparisonReturned
                /\ summary_result.success =>
                    /\ {summary_result.execution1, summary_result.execution2}
                            = {summary_call.execution1.s, summary_call.execution2.s}
                    /\ InOrder(summary_result.execution1, summary_result.execution2)

\* C23: no exception escapes a comparison: whatever the arguments, with both
\* identifiers in particular, the call returns a dictionary with a success flag
C23_NoExceptionEscapes ==
    ComparisonCalled => ComparisonReturned /\ summary_result.success \in BOOLEAN

\* The testnames a list holds
NamesIn(list) == {list[i] : i \in DOMAIN list}

\* C24: for each of the six ordered pairs of different statuses, status_changes
\* lists exactly the testnames present in both builds that went from the
\* first status to the second
C24_TransitionMap ==
    Compared =>
        \A before, after \in Statuses :
            before # after =>
                NamesIn(summary_result.status_changes[before \o "->" \o after])
                    = {name \in TestNameSet :
                          PreviousStatus(name) = before /\ CurrentStatus(name) = after}

\* Did testname name go from PASS to FAIL or SKIP between the two builds
Regressed(name) ==
    PreviousStatus(name) = "PASS" /\ CurrentStatus(name) \in {"FAIL", "SKIP"}

\* C25: changed_tests has one entry for each testname that is in both builds
\* with PASS before and FAIL or SKIP now, with these two statuses, and no
\* other entry; the testname is listed under the key of its change and
\* total_changed is the number of entries
C25_RegressionDiff ==
    Compared =>
        LET changed_tests == summary_result.changed_tests
        IN  /\ \A name \in TestNameSet :
                Cardinality({i \in DOMAIN changed_tests :
                                changed_tests[i]["testname"] = name})
                    = IF Regressed(name) THEN 1 ELSE 0
            /\ \A i \in DOMAIN changed_tests :
                LET test == changed_tests[i]
                IN  /\ test["testname"] \in TestNameSet
                    /\ test["previous_status"] = PreviousStatus(test["testname"])
                    /\ test["current_status"] = CurrentStatus(test["testname"])
                    /\ test["testname"] \in
                         NamesIn(summary_result.status_changes[
                                    "PASS->" \o test["current_status"]])
            /\ summary_result.total_changed = Len(changed_tests)

\* t1 passed in the older build and fails in the newer one, t2 is in one
\* build only: the comparison has the one entry of t1
C25_Witness ==
    /\ Compared
    /\ summary_result.execution1 # summary_result.execution2
    /\ PreviousStatus("t1") = "PASS" /\ CurrentStatus("t1") = "FAIL"
    /\ PreviousStatus("t2") = Absent /\ CurrentStatus("t2") = "FAIL"
    /\ summary_result.total_changed = 1
    /\ summary_result.status_changes["PASS->FAIL"] = <<"t1">>

\* The numerically largest execution of a set
Latest(executions) ==
    CHOOSE e \in executions : \A other \in executions : StrToInt(other) <= StrToInt(e)

\* C26: a comparison without identifiers, the store knowing two executions or
\* more, compares the latest execution, as execution2, with the one just
\* before it, as execution1
C26_MostRecentPair ==
    (/\ Compared
     /\ summary_call.execution1 = NoneCell /\ summary_call.execution2 = NoneCell
     /\ Cardinality(summary_call.known) >= 2) =>
        /\ summary_result.execution2 = Latest(summary_call.known)
        /\ summary_result.execution1
              = Latest(summary_call.known \ {Latest(summary_call.known)})

(***************************************************************************)
(* Properties of a request, continued                                      *)
(***************************************************************************)
\* The validations of the run that succeeded
SucceededValidations ==
    SelectSeq(execLog, LAMBDA e : e.step = "validate" /\ e.result.success)

\* C27: success is final.  A finished run of generate_query_with_summary whose
\* query executed successfully in the validation of attempt k returns
\* success = True, attempts = k and the rows of that execution
C27_SuccessFinal ==
    (pc = "done" /\ fn = "with_summary" /\ SucceededValidations # <<>>) =>
        /\ result.success
        /\ result.attempts = SucceededValidations[1].attempt
        /\ result.data = SucceededValidations[1].result.data

\* The validations before attempt k that failed, in attempt order
FailedValidations(k) ==
    SelectSeq(execLog, LAMBDA e : e.step = "validate" /\ e.attempt < k /\ ~e.result.success)

\* Does the text hold the tokens part, next to each other
HoldsTokens(text, part) ==
    \E i \in 0..(Len(text) - Len(part)) : SubSeq(text, i + 1, i + Len(part)) = part

\* C28: the messages handed to the generator at attempt k are the system
\* prompt and the request of the user, then, for each earlier attempt whose
\* execution failed and in the order of the attempts, the failed query as an
\* assistant message and a user message that holds the error of the store
\* and the failed query; the messages of an earlier call are the first
\* messages of every later call
C28_FeedbackContext ==
    \A n \in DOMAIN genLog :
        LET context == genLog[n].messages
            failed == FailedValidations(genLog[n].attempt)
        IN  /\ Len(context) = 2 + 2 * Len(failed)
            /\ context[1] = Message("system", QUERY_ANALYSIS_PROMPT)
            /\ context[2] = Message("user", user_query)
            /\ \A j \in DOMAIN failed :
                /\ context[2 * j + 1] = Message("assistant", failed[j].query)
                /\ context[2 * j + 2].role = "user"
                /\ HoldsTokens(context[2 * j + 2].content, failed[j].result.error)
                /\ HoldsTokens(context[2 * j + 2].content, failed[j].query)
            /\ \A earlier \in 1..(n - 1) :
                /\ Len(genLog[earlier].messages) <= Len(context)
                /\ SubSeq(context, 1, Len(genLog[earlier].messages))
                        = genLog[earlier].messages

\* The generator is called for the third attempt after two failed executions
C28_Witness ==
    \E n \in DOMAIN genLog :
        /\ genLog[n].attempt = 3
        /\ Len(genLog[n].messages) = 6
        /\ Len(FailedValidations(3)) = 2

\* C30: a retry loop with max_retries >= 1 never has more iterations than
\* max_retries, each with one call of the generator; once it has ended the
\* attempts it returns is the number of iterations started, from 1 to
\* max_retries, and its result is not the one of the statements after the
\* loop.  With max_retries < 1 the loop ends without a call of the generator
\* and returns that result, "Max retries reached"
C30_AttemptBound ==
    /\ (pc \in {"generating", "validating"}) =>
            /\ 1 <= attempt /\ attempt <= max_retries
            /\ Len(genLog) = IF pc = "generating" THEN attempt - 1 ELSE attempt
    /\ LoopEnded =>
        IF max_retries >= 1
        THEN /\ Len(genLog) <= max_retries
             /\ 1 <= LoopResult.attempts /\ LoopResult.attempts <= max_retries
             /\ LoopResult.attempts = Len(genLog)
             /\ \A n \in DOMAIN genLog : genLog[n].attempt = n
             /\ LoopResult.error # MaxRetriesReached
        ELSE /\ genLog = <<>>
             /\ LoopResult.error = MaxRetriesReached
             /\ ~LoopResult.success

\* The exception of the first attempt is passed over, the execution of the
\* second fails and the third attempt, the last one allowed, succeeds
C30_Witness ==
    /\ LoopEnded
    /\ max_retries = 3
    /\ Len(genLog) = 3
    /\ genLog[1].out.kind = "raise"
    /\ Len(execLog) >= 2 /\ ~execLog[1].result.success
    /\ LoopResult.success
    /\ LoopResult.attempts = 3

(***************************************************************************)
(* The record store on its own: one call of execute_flux_query             *)
(***************************************************************************)
StoreQueries ==
    {<<>>, <<"q1">>, <<ExecToken>>, <<"from", ExecToken, "filter">>,
     <<ExecToken, "join", ExecToken>>, <<"q1", NL, "q2">>}

StoreExecutionNumbers == {NoneCell, StrCell("7"), StrCell("12"), StrCell("")}

\* One call of execute_flux_query; sent is the query handed to the client,
\* NoneText when there is no client
StoreCall ==
    /\ store_call = NoResult
    /\ \E query \in StoreQueries, number \in StoreExecutionNumbers, out \in StoreOutcomes :
        /\ store_call' =
            [query |-> query, execution_number |-> number, out |-> out,
             sent |-> IF out.kind = "unavailable" THEN NoneText
                      ELSE processed_query(query, NumberOrDefault(number))]
        /\ store_result' = execute_flux_query(query, number, out)
    /\ UNCHANGED <<serviceVars, classifierVars, aggregationVars, categorizerVars,
                   summaryVars>>

SpecStore == Init /\ [][StoreCall]_vars

\* The records of the tables the store yielded, table after table
RECURSIVE RecordsOf(_)
RecordsOf(tables) ==
    IF tables = <<>> THEN <<>> ELSE Head(tables) \o RecordsOf(Tail(tables))

====
